---- MODULE Spec2Model ----
(***************************************************************************)
(* A model of the source-text analysis pipeline of codedocgen-backend:     *)
(*   - FlowAnalyzer._analyze_endpoint_flow / _analyze_method_flow          *)
(*     (src/app/services/flow_analyzer.py), the recursive flow tracer,     *)
(*     written as an explicit call stack;                                  *)
(*   - EndpointParser.parse_endpoints and the passes it runs               *)
(*     (src/app/services/endpoint_parser.py), one step per file and pass.  *)
(* Python strings the code compares by content (class and method names,    *)
(* paths) are sequences of one-character strings, so that lower(),         *)
(* substring tests, strip() and concatenation are computed, not assumed.   *)
(***************************************************************************)
EXTENDS Integers, Sequences, FiniteSets, TLC

VARIABLES
    \* ---- FlowAnalyzer ----
    parsed_classes,   \* self.parsed_classes: class infos in insertion order
    endpoint,         \* the endpoint dict handed to _analyze_endpoint_flow
    flow_pc,          \* position of _analyze_endpoint_flow
    stack,            \* activation records of _analyze_method_flow, root first
    method_flow,      \* the node returned by the root _analyze_method_flow call
    flow_result,      \* the dict returned by _analyze_endpoint_flow
    \* ---- EndpointParser ----
    java_files,       \* the files _find_java_files returned, in its order
    scan_pc,          \* position of parse_endpoints: the pass it is in
    scan_i,           \* the file the current pass is at
    services,         \* self.services
    repositories,     \* self.repositories
    entities,         \* self.entities
    endpoints,        \* the local list `endpoints` of parse_endpoints
    controller_service_mappings,   \* self.controller_service_mappings
    service_repo_mappings,         \* self.service_repo_mappings
    returned,         \* the graphs parse_endpoints has returned, oldest first
    \* ---- FlowAnalyzer._extract_method_calls ----
    method_body,      \* the method body the calls are extracted from
    calls_pc,         \* position of _extract_method_calls: the loop it is in
    calls_i,          \* the match the current loop is at
    autowired_fields, \* the local dict autowired_fields
    calls,            \* the local list calls
    unique_calls,     \* the list returned
    \* ---- the entry points, called on a repository path ----
    repo_path,        \* what the path names: its kind and the tree below it
    entry_point,      \* the entry point called
    entry_pc,         \* position of the entry point
    found_files,      \* the local java_files: the files found so far
    read_files,       \* the files the entry point has opened
    entry_result,     \* what the entry point returned
    \* ---- two parse_endpoints calls that run at the same time ----
    instance_of,      \* the EndpointParser instance each call runs on
    collections,      \* the five maps of each EndpointParser instance
    run_files,        \* the java_files of each call
    run_pc,           \* position of each call: the pass it is in
    run_i,            \* the file each call's pass is at
    run_endpoints,    \* the local list `endpoints` of each call
    run_result,       \* the graph each call returned
    \* ---- the extraction of a method's body from the text of a file ----
    content,          \* the text of the file, as braces and other tokens
    extractor,        \* the function that extracts the body
    block_pc,         \* position of the extraction
    method_block,     \* the text extracted
    \* ---- one EndpointParser and the parse_endpoints calls made on it, one after the other ----
    inst_collections, \* the five maps of the instance
    inst_paths,       \* the repository paths of the calls made, oldest first
    inst_returned,    \* what the last call returned
    \* ---- the kind of one class, in the graph of the scan and on the nodes of the tracer ----
    class_file,       \* the Java file that declares the class
    kind_pc,          \* position: before or after the two classifications
    graph_kind,       \* the kind _identify_class_type gives the class
    class_type,       \* class_info['class_type'] of analyze_flows
    \* ---- one EntityParser and the parse_entities calls made on it ----
    ent_files,        \* the Java files below self.repo_path, in the order of the walk
    ent_pc,           \* position of parse_entities
    ent_i,            \* the file the loop of parse_entities is at
    ent_entities,     \* self.entities
    ent_count,        \* self.count
    ent_calls,        \* the parse_entities calls that have returned
    ent_result,       \* what the last call returned
    \* ---- analyze_flows: what it collects from the endpoint traced ----
    flows             \* the local list flows of analyze_flows

flowVars == <<parsed_classes, endpoint, flow_pc, stack, method_flow, flow_result>>

scanVars == <<java_files, scan_pc, scan_i, services, repositories, entities,
              endpoints, controller_service_mappings, service_repo_mappings,
              returned>>

callVars == <<method_body, calls_pc, calls_i, autowired_fields, calls,
              unique_calls>>

entryVars == <<repo_path, entry_point, entry_pc, found_files, read_files,
               entry_result>>

runVars == <<instance_of, collections, run_files, run_pc, run_i,
             run_endpoints, run_result>>

blockVars == <<content, extractor, block_pc, method_block>>

instVars == <<inst_collections, inst_paths, inst_returned>>

kindVars == <<class_file, kind_pc, graph_kind, class_type>>

entVars == <<ent_files, ent_pc, ent_i, ent_entities, ent_count, ent_calls, ent_result>>

flatVars == <<flows>>

vars == <<flowVars, scanVars, callVars, entryVars, runVars, blockVars,
          instVars, kindVars, entVars, flatVars>>

\* What a step of one part of the model leaves alone: the other parts.
nonFlowVars == <<scanVars, callVars, entryVars, runVars, blockVars, instVars,
                 kindVars, entVars, flatVars>>
nonScanVars == <<flowVars, callVars, entryVars, runVars, blockVars, instVars,
                 kindVars, entVars, flatVars>>
nonCallVars == <<flowVars, scanVars, entryVars, runVars, blockVars, instVars,
                 kindVars, entVars, flatVars>>
nonEntryVars == <<flowVars, scanVars, callVars, runVars, blockVars, instVars,
                  kindVars, entVars, flatVars>>
nonRunVars == <<flowVars, scanVars, callVars, entryVars, blockVars, instVars,
                kindVars, entVars, flatVars>>
nonBlockVars == <<flowVars, scanVars, callVars, entryVars, runVars, instVars,
                  kindVars, entVars, flatVars>>
nonInstVars == <<flowVars, scanVars, callVars, entryVars, runVars, blockVars,
                 kindVars, entVars, flatVars>>
nonKindVars == <<flowVars, scanVars, callVars, entryVars, runVars, blockVars,
                 instVars, entVars, flatVars>>
nonEntVars == <<flowVars, scanVars, callVars, entryVars, runVars, blockVars,
                instVars, kindVars, flatVars>>
nonFlatVars == <<flowVars, scanVars, callVars, entryVars, runVars, blockVars,
                 instVars, kindVars, entVars>>

-----------------------------------------------------------------------------
(* Bounds of the model.                                                    *)

MaxClasses == 2     \* parsed classes in one repository
MaxMethods == 1     \* methods declared by one class
MaxEdges == 2       \* call edges in one repository
MaxFiles == 2       \* Java files in one scanned repository
MaxMarkers == 2     \* annotation markers in one file
MaxMappedMethods == 2   \* methods declared by one controller
MaxFields == 2      \* fields declared by one entity
MaxPathLen == 3     \* characters of a mapping path
MaxLadderMethods == 2   \* methods declared by a class that calls nothing
MaxScans == 2       \* parse_endpoints calls on one EndpointParser
MaxBodyCalls == 3   \* call expressions in one method body
MaxBodyFields == 1  \* declarations in one method body
NumCalls == 2       \* parse_endpoints calls that run at the same time
MaxRunFiles == 2    \* files of the repository of one such call
MaxTreeFiles == 4   \* files below one repository path
MaxContentLen == 6  \* tokens of text after the opening brace of a method
MaxInstanceCalls == 3 \* parse_endpoints calls made on one instance
MaxEntityFiles == 3 \* Java files below the path of an EntityParser
MaxEntityCalls == 2 \* parse_entities calls made on one EntityParser

-----------------------------------------------------------------------------
(* Strings.                                                                *)

\* str.lower() on the characters the model uses.
LowerChar(c) ==
    CASE c = "A" -> "a"
      [] c = "B" -> "b"
      [] OTHER -> c

Lower(s) == [i \in 1..Len(s) |-> LowerChar(s[i])]

\* Python's `needle in hay` on strings.
Contains(needle, hay) ==
    \E i \in 0..(Len(hay) - Len(needle)) :
        SubSeq(hay, i + 1, i + Len(needle)) = needle

\* a.lower() in b.lower() or b.lower() in a.lower()
SimilarName(a, b) ==
    \/ Contains(Lower(a), Lower(b))
    \/ Contains(Lower(b), Lower(a))

\* The smallest element of a non-empty set of integers; 0 for the empty set:
\* the first index at which a for loop breaks, or "no break".
FirstOf(S) == IF S = {} THEN 0 ELSE CHOOSE i \in S : \A j \in S : i <= j

SeqsUpTo(S, n) == UNION { [1..k -> S] : k \in 0..n }

DistinctSeqs(S, n) ==
    { s \in SeqsUpTo(S, n) : \A i, j \in 1..Len(s) : i # j => s[i] # s[j] }

-----------------------------------------------------------------------------
(* EndpointParser: the scanned files.                                      *)
(* A file is described by what the parser's regular expressions can find   *)
(* in its text: the type declaration, the annotation markers, the mapping  *)
(* annotations and headers of its methods, its @Autowired fields and the   *)
(* tokens of its field declarations.                                       *)

CONTROLLER_ANNOTATIONS == {"@RestController", "@Controller"}
SERVICE_ANNOTATIONS == {"@Service", "@Component"}
REPOSITORY_ANNOTATIONS ==
    {"@Repository", "extends JpaRepository", "extends CrudRepository",
     "extends MongoRepository"}
ENTITY_ANNOTATIONS == {"@Entity", "@Document", "@Table"}
MAPPING_ANNOTATIONS ==
    {"@RequestMapping", "@GetMapping", "@PostMapping", "@PutMapping",
     "@DeleteMapping", "@PatchMapping"}

\* The value None of an Optional[str], and a mapping annotation that has no
\* quoted path argument.
None == "None"
NoPath == <<"no path">>

\* Tokens of Java text that are not identifiers.
Punctuation == {"<", ">", ",", "[", "]", "(", ")", ";", "="}
AnnotationTokens == {"@OneToMany", "@ManyToOne", "@OneToOne", "@ManyToMany"}
\* \w+ on a token
IsWord(t) == t \notin Punctuation /\ t \notin AnnotationTokens /\ t # ""

\* str.strip('/')
RECURSIVE LStrip(_)
LStrip(s) == IF s # << >> /\ Head(s) = "/" THEN LStrip(Tail(s)) ELSE s

RECURSIVE RStrip(_)
RStrip(s) ==
    IF s # << >> /\ s[Len(s)] = "/" THEN RStrip(SubSeq(s, 1, Len(s) - 1)) ELSE s

Strip(s) == RStrip(LStrip(s))

\* path.startswith("/")
StartsWithSlash(path) == path # << >> /\ Head(path) = "/"

RECURSIVE Concat(_)
\* The concatenation of a sequence of sequences.
Concat(ss) == IF ss = << >> THEN << >> ELSE Head(ss) \o Concat(Tail(ss))

\* An empty dict, and dict[key] = val.
EmptyMap == [k \in {} |-> 0]
MapPut(map, key, val) ==
    [k \in DOMAIN map \cup {key} |-> IF k = key THEN val ELSE map[k]]

\* _extract_class_name: the name after `class`, else after `interface`,
\* else None.
ExtractClassName(file) ==
    IF file.declares \in {"class", "interface"} THEN file.name ELSE None

\* re.search(pattern, content) for some pattern of the list
SearchAny(patterns, file) == file.markers \cap patterns # {}

\* A controller check that finds no annotation.
NeverController(file) == FALSE

\* The loop over CONTROLLER_ANNOTATIONS of _identify_class_type, _parse_file
\* and _identify_relationships.
IsController(file) == SearchAny(CONTROLLER_ANNOTATIONS, file)

\* The checks with repository tried before service.
ClassKindRepositoryFirst(file) ==
    IF ExtractClassName(file) = None THEN "none"
    ELSE IF IsController(file) THEN "controller"
    ELSE IF SearchAny(REPOSITORY_ANNOTATIONS, file) THEN "repository"
    ELSE IF SearchAny(SERVICE_ANNOTATIONS, file) THEN "service"
    ELSE IF SearchAny(ENTITY_ANNOTATIONS, file) THEN "entity"
    ELSE "unknown"

\* _identify_class_type: the first check that matches returns.
ClassKind(file) ==
    IF ExtractClassName(file) = None THEN "none"
    ELSE IF IsController(file) THEN "controller"
    ELSE IF SearchAny(SERVICE_ANNOTATIONS, file) THEN "service"
    ELSE IF SearchAny(REPOSITORY_ANNOTATIONS, file) THEN "repository"
    ELSE IF SearchAny(ENTITY_ANNOTATIONS, file) THEN "entity"
    ELSE "unknown"

\* No parse_endpoints call is under way.
ScanIdle ==
    /\ java_files = << >>
    /\ scan_pc = "idle"
    /\ scan_i = 0
    /\ services = EmptyMap
    /\ repositories = EmptyMap
    /\ entities = EmptyMap
    /\ endpoints = << >>
    /\ controller_service_mappings = EmptyMap
    /\ service_repo_mappings = EmptyMap
    /\ returned = << >>

\* No _extract_method_calls call is under way.
CallsIdle ==
    /\ method_body = [fields |-> << >>, calls |-> << >>]
    /\ calls_pc = "idle"
    /\ calls_i = 0
    /\ autowired_fields = EmptyMap
    /\ calls = << >>
    /\ unique_calls = << >>

\* No result yet.
NoResult == [none |-> TRUE]

\* A path that names nothing, with nothing below it.
NoRepository ==
    [kind |-> "missing", main_exists |-> FALSE, unlistable |-> {}, files |-> {}]

\* No entry point has been called.
EntryIdle ==
    /\ repo_path = NoRepository
    /\ entry_point = "none"
    /\ entry_pc = "idle"
    /\ found_files = {}
    /\ read_files = {}
    /\ entry_result = NoResult

\* No two calls run at the same time.
RunsIdle ==
    /\ instance_of = << >>
    /\ collections = << >>
    /\ run_files = << >>
    /\ run_pc = << >>
    /\ run_i = << >>
    /\ run_endpoints = << >>
    /\ run_result = << >>

\* No method body is being extracted.
BlocksIdle ==
    /\ content = << >>
    /\ extractor = "none"
    /\ block_pc = "idle"
    /\ method_block = << >>

\* No EndpointParser of this kind exists.
InstanceIdle ==
    /\ inst_collections = << >>
    /\ inst_paths = << >>
    /\ inst_returned = NoResult

\* No class is being given a kind.
KindsIdle ==
    /\ class_file = << >>
    /\ kind_pc = "idle"
    /\ graph_kind = "none"
    /\ class_type = "none"

\* No EntityParser of this kind exists.
EntitiesIdle ==
    /\ ent_files = << >>
    /\ ent_pc = "idle"
    /\ ent_i = 0
    /\ ent_entities = << >>
    /\ ent_count = 0
    /\ ent_calls = 0
    /\ ent_result = NoResult

\* flows = []: analyze_flows has appended nothing.
FlowsEmpty ==
    /\ flows = << >>

-----------------------------------------------------------------------------
(* FlowAnalyzer: the parsed classes and the endpoints the tracer is run on. *)

\* Class names, as declared and as named by call edges and endpoints: "a" and
\* "B" are each similar to "Ab", and not to each other.
ClassNameSet == { <<"A", "b">>, <<"a">>, <<"B">> }
\* Method names named by call edges and endpoints; a class may instead declare
\* "mx" (similar to "m"), an annotated handler "n" or an unrelated "k".
MethodNames == { <<"m">> }
EmptyName == << >>

\* The method declarations a class may hold, as _extract_methods records them
\* (name, return_type, annotations), before their calls are added.
MethodMenu ==
    { [name |-> <<"m">>, return_type |-> "int", annotations |-> << >>],
      [name |-> <<"m", "x">>, return_type |-> "long", annotations |-> << >>],
      [name |-> <<"n">>, return_type |-> "String",
       annotations |-> <<"GetMapping">>],
      [name |-> <<"k">>, return_type |-> "void", annotations |-> << >>] }

\* A call edge as _extract_method_calls records it: {'class': .., 'method': ..}
Targets == { [class |-> c, method |-> m] : c \in ClassNameSet, m \in MethodNames }

CallLists == DistinctSeqs(Targets, MaxEdges)

MethodInfos ==
    { [name |-> d.name, return_type |-> d.return_type,
       annotations |-> d.annotations, calls |-> cs] :
        d \in MethodMenu, cs \in CallLists }

MethodLists ==
    { ms \in SeqsUpTo(MethodInfos, MaxMethods) :
        \A i, j \in 1..Len(ms) : i # j => ms[i].name # ms[j].name }

ClassInfos ==
    { [name |-> c, methods |-> ms] : c \in ClassNameSet, ms \in MethodLists }

\* One controller "Ab" whose methods call nothing: every choice and order of
\* the declarations of the menu.
LadderClasses ==
    { <<[name |-> <<"A", "b">>,
         methods |-> [k \in 1..Len(ds) |->
                        [name |-> ds[k].name, return_type |-> ds[k].return_type,
                         annotations |-> ds[k].annotations, calls |-> << >>]]]>> :
        ds \in DistinctSeqs(MethodMenu, MaxLadderMethods) }

RECURSIVE SumLen(_)
SumLen(ms) == IF ms = << >> THEN 0 ELSE Len(Head(ms).calls) + SumLen(Tail(ms))

RECURSIVE CountEdges(_)
CountEdges(cs) ==
    IF cs = << >> THEN 0 ELSE SumLen(Head(cs).methods) + CountEdges(Tail(cs))

\* self.parsed_classes after analyze_flows has parsed a repository: a dict, so
\* its keys (class names) are distinct; insertion order is kept.
ParsedClassesSet ==
    { cs \in SeqsUpTo(ClassInfos, MaxClasses) :
        /\ \A i, j \in 1..Len(cs) : i # j => cs[i].name # cs[j].name
        /\ CountEdges(cs) <= MaxEdges }
    \cup LadderClasses

\* The endpoints handed to the tracer: every class name as controller, and
\* one endpoint without a controller name.
EndpointSet ==
    { [controller |-> c, method |-> <<"m">>, http_method |-> "GET",
       path |-> "/p"] : c \in ClassNameSet \cup {EmptyName} }

NoNode == [none |-> TRUE]

InitFlow ==
    /\ parsed_classes \in ParsedClassesSet
    /\ endpoint \in EndpointSet
    /\ flow_pc = "start"
    /\ stack = << >>
    /\ method_flow = NoNode
    /\ flow_result = NoResult
    /\ ScanIdle
    /\ CallsIdle
    /\ EntryIdle
    /\ RunsIdle
    /\ BlocksIdle
    /\ InstanceIdle
    /\ KindsIdle
    /\ EntitiesIdle
    /\ FlowsEmpty

\* No _analyze_endpoint_flow call is under way.
FlowIdle ==
    /\ parsed_classes = << >>
    /\ endpoint = [controller |-> EmptyName, method |-> EmptyName,
                   http_method |-> "GET", path |-> "/p"]
    /\ flow_pc = "idle"
    /\ stack = << >>
    /\ method_flow = NoNode
    /\ flow_result = NoResult

-----------------------------------------------------------------------------
(* FlowAnalyzer._analyze_method_flow, one activation record per invocation. *)

\* A flow node. The dict keys the code sets only on some nodes are flags
\* here: is_cycle (key 'is_cycle', always True when present) and has_calls
\* (key 'calls').
CycleNode(class_name, method_name) ==
    [class_name |-> class_name, method |-> method_name, return_type |-> "void",
     is_cycle |-> TRUE, has_calls |-> FALSE, calls |-> << >>]

NotFoundNode(class_name, method_name) ==
    [class_name |-> class_name, method |-> method_name, return_type |-> "void",
     is_cycle |-> FALSE, has_calls |-> FALSE, calls |-> << >>]

ExpandedNode(class_name, method_name, return_type, nested) ==
    [class_name |-> class_name, method |-> method_name,
     return_type |-> return_type,
     is_cycle |-> FALSE, has_calls |-> TRUE, calls |-> nested]

\* method_key = f"{class_name}.{method_name}"
MethodKey(class_name, method_name) == class_name \o <<".">> \o method_name

\* A membership test that finds no key.
OnPathNever(method_key, visited) == FALSE

\* if method_key in visited
OnPath(method_key, visited) == method_key \in visited

\* The visited set left as it was.
VisitedAddNothing(visited, method_key) == visited

\* visited.add(method_key)
VisitedAdd(visited, method_key) == visited \cup {method_key}

\* self.parsed_classes.get(class_name): the index of the class, 0 for None.
GetClass(class_name) ==
    FirstOf({ i \in 1..Len(parsed_classes) :
                parsed_classes[i].name = class_name })

\* The fallback loop over self.parsed_classes.keys(): the first class whose
\* lower-cased name contains, or is contained in, the requested one.
SimilarClass(class_name) ==
    FirstOf({ i \in 1..Len(parsed_classes) :
                SimilarName(class_name, parsed_classes[i].name) })

\* A lookup that goes by similar names only.
ResolveClassBySimilarName(class_name) == SimilarClass(class_name)

ResolveClass(class_name) ==
    IF GetClass(class_name) # 0 THEN GetClass(class_name)
    ELSE SimilarClass(class_name)

MappingAnnotations ==
    {"GetMapping", "PostMapping", "PutMapping", "DeleteMapping", "RequestMapping"}

HasMappingAnnotation(m) ==
    \E k \in 1..Len(m.annotations) : m.annotations[k] \in MappingAnnotations

\* for m in methods: if m['name'] == method_name: break
ExactMethod(ci, method_name) ==
    FirstOf({ j \in 1..Len(parsed_classes[ci].methods) :
                parsed_classes[ci].methods[j].name = method_name })

\* A fallback loop that finds no method.
NoFallbackMethod(ci, method_name) == 0

\* The fallback loop: the first method that carries a mapping annotation or
\* whose name is similar to the requested one.
FallbackMethod(ci, method_name) ==
    FirstOf({ j \in 1..Len(parsed_classes[ci].methods) :
                \/ HasMappingAnnotation(parsed_classes[ci].methods[j])
                \/ SimilarName(method_name, parsed_classes[ci].methods[j].name) })

ResolveMethod(ci, method_name) ==
    IF ExactMethod(ci, method_name) # 0 THEN ExactMethod(ci, method_name)
    ELSE FallbackMethod(ci, method_name)

\* Skip self-references: called_class == class_name and
\* called_method_name == method_name, or an empty class or method.
SkipCall(call, class_name, method_name) ==
    \/ call.class = EmptyName
    \/ call.method = EmptyName
    \/ (call.class = class_name /\ call.method = method_name)

\* An activation record on entry: the arguments, nothing resolved yet.
\* arg_class keeps the class_name argument as passed; the local class_name is
\* overwritten when the class is found by a similar name.
NewFrame(class_name, method_name, visited) ==
    [arg_class |-> class_name,
     class_name |-> class_name, method_name |-> method_name,
     visited |-> visited, phase |-> "enter",
     ci |-> 0, mj |-> 0, idx |-> 0, calls |-> << >>]

Top == stack[Len(stack)]

TopKey == MethodKey(Top.class_name, Top.method_name)

\* The recursion never gets deeper than one frame per pair that can be
\* requested, plus the frame of the repeat; the guard keeps the state space
\* finite for any tracer.
DepthCap == Cardinality(ClassNameSet) * Cardinality(MethodNames) + 2

\* One visited set that every invocation adds to.
VisitedShared(visited, child_visited) == visited \cup child_visited

\* The caller's visited set once a child invocation has returned: the child
\* worked on new_visited = visited.copy(), so the caller's set is as before.
VisitedAfterChild(visited, child_visited) == visited

\* `return node` of the top activation: the caller appends it to its calls
\* (if nested_flow: calls.append(nested_flow)) and goes on with its next
\* call; the root's caller is _analyze_endpoint_flow.
Deliver(node) ==
    IF Len(stack) = 1
    THEN /\ stack' = << >>
         /\ method_flow' = node
         /\ flow_pc' = IF flow_pc = "trace" THEN "returned" ELSE "recovered"
    ELSE /\ stack' =
              [SubSeq(stack, 1, Len(stack) - 1) EXCEPT
                  ![Len(stack) - 1].calls = Append(@, node),
                  ![Len(stack) - 1].visited = VisitedAfterChild(@, Top.visited),
                  ![Len(stack) - 1].idx = @ + 1]
         /\ UNCHANGED <<method_flow, flow_pc>>

Tracing == flow_pc \in {"trace", "recover"} /\ stack # << >>

MethodFlowCycle ==
    /\ Tracing
    /\ Top.phase = "enter"
    /\ OnPath(TopKey, Top.visited)
    /\ Deliver(CycleNode(Top.class_name, Top.method_name))
    /\ UNCHANGED <<parsed_classes, endpoint, flow_result>>
    /\ UNCHANGED nonFlowVars

MethodFlowClassNotFound ==
    /\ Tracing
    /\ Top.phase = "enter"
    /\ ~OnPath(TopKey, Top.visited)
    /\ ResolveClass(Top.class_name) = 0
    /\ Deliver(NotFoundNode(Top.class_name, Top.method_name))
    /\ UNCHANGED <<parsed_classes, endpoint, flow_result>>
    /\ UNCHANGED nonFlowVars

MethodFlowMethodNotFound ==
    /\ Tracing
    /\ Top.phase = "enter"
    /\ ~OnPath(TopKey, Top.visited)
    /\ LET ci == ResolveClass(Top.class_name) IN
        /\ ci # 0
        /\ ResolveMethod(ci, Top.method_name) = 0
        /\ Deliver(NotFoundNode(parsed_classes[ci].name, Top.method_name))
    /\ UNCHANGED <<parsed_classes, endpoint, flow_result>>
    /\ UNCHANGED nonFlowVars

MethodFlowExpand ==
    /\ Tracing
    /\ Top.phase = "enter"
    /\ ~OnPath(TopKey, Top.visited)
    /\ LET ci == ResolveClass(Top.class_name) IN
        /\ ci # 0
        /\ ResolveMethod(ci, Top.method_name) # 0
        /\ stack' = [stack EXCEPT ![Len(stack)] =
                        [arg_class |-> Top.arg_class,
                         class_name |-> parsed_classes[ci].name,
                         method_name |-> Top.method_name,
                         visited |-> VisitedAdd(Top.visited, TopKey),
                         phase |-> "loop",
                         ci |-> ci,
                         mj |-> ResolveMethod(ci, Top.method_name),
                         idx |-> 1,
                         calls |-> << >>]]
    /\ UNCHANGED <<parsed_classes, endpoint, flow_pc, method_flow, flow_result>>
    /\ UNCHANGED nonFlowVars

\* method_info of the top activation, and the call its loop is at.
TopMethodInfo == parsed_classes[Top.ci].methods[Top.mj]
TopCall == TopMethodInfo.calls[Top.idx]

MethodFlowSkipCall ==
    /\ Tracing
    /\ Top.phase = "loop"
    /\ Top.idx <= Len(TopMethodInfo.calls)
    /\ SkipCall(TopCall, Top.class_name, Top.method_name)
    /\ stack' = [stack EXCEPT ![Len(stack)].idx = @ + 1]
    /\ UNCHANGED <<parsed_classes, endpoint, flow_pc, method_flow, flow_result>>
    /\ UNCHANGED nonFlowVars

\* new_visited = visited.copy(); self._analyze_method_flow(.., new_visited)
MethodFlowRecurse ==
    /\ Tracing
    /\ Top.phase = "loop"
    /\ Top.idx <= Len(TopMethodInfo.calls)
    /\ ~SkipCall(TopCall, Top.class_name, Top.method_name)
    /\ Len(stack) < DepthCap
    /\ stack' = Append(stack, NewFrame(TopCall.class, TopCall.method, Top.visited))
    /\ UNCHANGED <<parsed_classes, endpoint, flow_pc, method_flow, flow_result>>
    /\ UNCHANGED nonFlowVars

MethodFlowReturn ==
    /\ Tracing
    /\ Top.phase = "loop"
    /\ Top.idx > Len(TopMethodInfo.calls)
    /\ Deliver(ExpandedNode(Top.class_name, Top.method_name,
                            TopMethodInfo.return_type, Top.calls))
    /\ UNCHANGED <<parsed_classes, endpoint, flow_result>>
    /\ UNCHANGED nonFlowVars

-----------------------------------------------------------------------------
(* FlowAnalyzer._analyze_endpoint_flow.                                     *)

\* The keys of self.java_files_map: analyze_flows parses exactly the classes
\* of that map, in its order, into self.parsed_classes.
JavaFilesMapKeys == [i \in 1..Len(parsed_classes) |-> parsed_classes[i].name]

\* controller in self.java_files_map, else the first similar key; 0 when
\* controller_found stays False.
ActualController(controller) ==
    IF \E i \in 1..Len(JavaFilesMapKeys) : JavaFilesMapKeys[i] = controller
    THEN FirstOf({ i \in 1..Len(JavaFilesMapKeys) :
                     JavaFilesMapKeys[i] = controller })
    ELSE FirstOf({ i \in 1..Len(JavaFilesMapKeys) :
                     SimilarName(controller, JavaFilesMapKeys[i]) })

\* The dict every return of _analyze_endpoint_flow builds.
FlowRecord(flow) ==
    [controller |-> endpoint.controller, endpoint |-> endpoint.path,
     http_method |-> endpoint.http_method, flow |-> flow]

\* "flow": [method_flow] if method_flow else []
FlowList(node) == IF node = NoNode THEN << >> ELSE <<node>>

\* if not controller or not method: return {..., "flow": []}
EndpointMissingField ==
    /\ flow_pc = "start"
    /\ (endpoint.controller = EmptyName \/ endpoint.method = EmptyName)
    /\ flow_result' = FlowRecord(<< >>)
    /\ flow_pc' = "done"
    /\ UNCHANGED <<parsed_classes, endpoint, stack, method_flow>>
    /\ UNCHANGED nonFlowVars

\* if not controller_found: return {..., "flow": []}
EndpointControllerNotFound ==
    /\ flow_pc = "start"
    /\ endpoint.controller # EmptyName /\ endpoint.method # EmptyName
    /\ ActualController(endpoint.controller) = 0
    /\ flow_result' = FlowRecord(<< >>)
    /\ flow_pc' = "done"
    /\ UNCHANGED <<parsed_classes, endpoint, stack, method_flow>>
    /\ UNCHANGED nonFlowVars

\* method_flow = self._analyze_method_flow(actual_controller, method)
EndpointTrace ==
    /\ flow_pc = "start"
    /\ endpoint.controller # EmptyName /\ endpoint.method # EmptyName
    /\ ActualController(endpoint.controller) # 0
    /\ stack' = <<NewFrame(JavaFilesMapKeys[ActualController(endpoint.controller)],
                           endpoint.method, {})>>
    /\ flow_pc' = "trace"
    /\ UNCHANGED <<parsed_classes, endpoint, method_flow, flow_result>>
    /\ UNCHANGED nonFlowVars

\* f"{http_method.capitalize()}Mapping"
MappingAnnotationOf(http_method) ==
    CASE http_method = "GET" -> "GetMapping"
      [] http_method = "POST" -> "PostMapping"
      [] http_method = "PUT" -> "PutMapping"
      [] http_method = "DELETE" -> "DeleteMapping"
      [] OTHER -> "Mapping"

\* The first method of the controller carrying the verb's mapping annotation
\* or RequestMapping (the loop of the recovery branch); 0 if none.
MethodByHttpMapping(ci, http_method) ==
    FirstOf({ j \in 1..Len(parsed_classes[ci].methods) :
                \E k \in 1..Len(parsed_classes[ci].methods[j].annotations) :
                    parsed_classes[ci].methods[j].annotations[k]
                        \in {MappingAnnotationOf(http_method), "RequestMapping"} })

\* if method_flow is None or 'method' not in method_flow: every node the
\* tracer returns is a dict with the key 'method'.
NeedsRecovery(node) == node = NoNode

\* After the root call returned: the recovery branch re-traces the first
\* method found by its HTTP mapping; otherwise the record is returned.
EndpointReturn ==
    /\ flow_pc \in {"returned", "recovered"}
    /\ LET ci == ActualController(endpoint.controller) IN
       IF flow_pc = "returned" /\ NeedsRecovery(method_flow)
          /\ MethodByHttpMapping(ci, endpoint.http_method) # 0
       THEN /\ stack' =
                 <<NewFrame(parsed_classes[ci].name,
                            parsed_classes[ci].methods[
                                MethodByHttpMapping(ci, endpoint.http_method)].name,
                            {})>>
            /\ flow_pc' = "recover"
            /\ UNCHANGED <<method_flow, flow_result>>
       ELSE /\ flow_result' = FlowRecord(FlowList(method_flow))
            /\ flow_pc' = "done"
            /\ UNCHANGED <<stack, method_flow>>
    /\ UNCHANGED <<parsed_classes, endpoint>>
    /\ UNCHANGED nonFlowVars

\* process_item of _flatten_flow: the item gets its level and its path, the
\* path handed down followed by the item's own "class.method" entry, and
\* every call below it is processed one level down with the item's path.
\* Every node the tracer builds has the keys class_type and return_type, so
\* the two defaults are never set.
RECURSIVE ProcessItemKeepingLevel(_, _, _)
ProcessItemKeepingLevel(item, level, path) ==
    [class_name |-> item.class_name, method |-> item.method,
     return_type |-> item.return_type, is_cycle |-> item.is_cycle,
     has_calls |-> item.has_calls,
     level |-> level,
     path |-> Append(path, MethodKey(item.class_name, item.method)),
     calls |-> [i \in 1..Len(item.calls) |->
                  ProcessItemKeepingLevel(item.calls[i], level,
                      Append(path, MethodKey(item.class_name, item.method)))]]

RECURSIVE ProcessItem(_, _, _)
ProcessItem(item, level, path) ==
    [class_name |-> item.class_name, method |-> item.method,
     return_type |-> item.return_type, is_cycle |-> item.is_cycle,
     has_calls |-> item.has_calls,
     level |-> level,
     path |-> Append(path, MethodKey(item.class_name, item.method)),
     calls |-> [i \in 1..Len(item.calls) |->
                  ProcessItem(item.calls[i], level + 1,
                      Append(path, MethodKey(item.class_name, item.method)))]]

\* for item in flow_items: process_item(item)
FlattenFlow(flow_items) ==
    [i \in 1..Len(flow_items) |-> ProcessItem(flow_items[i], 0, << >>)]

\* The body of the loop of analyze_flows after _analyze_endpoint_flow has
\* returned: self._flatten_flow(flow_data['flow']); flows.append(flow_data)
AnalyzeFlowsAppend ==
    /\ flow_pc = "done"
    /\ flows = << >>
    /\ flows' = Append(flows, [flow_result EXCEPT !.flow = FlattenFlow(@)])
    /\ UNCHANGED nonFlatVars

NextFlow ==
    \/ EndpointMissingField
    \/ EndpointControllerNotFound
    \/ EndpointTrace
    \/ MethodFlowCycle
    \/ MethodFlowClassNotFound
    \/ MethodFlowMethodNotFound
    \/ MethodFlowExpand
    \/ MethodFlowSkipCall
    \/ MethodFlowRecurse
    \/ MethodFlowReturn
    \/ EndpointReturn
    \/ AnalyzeFlowsAppend

SpecFlow == InitFlow /\ [][NextFlow]_vars

\* The tracer is one synchronous call: once started it runs on until it
\* returns, so a step that can be taken is eventually taken.
SpecFlowFair == SpecFlow /\ WF_vars(NextFlow)

-----------------------------------------------------------------------------
(* The call graph the tracer walks: its vertices are the (class, method)   *)
(* pairs as requested, its edges the calls of the method a pair resolves to *)

\* The pair _analyze_endpoint_flow starts the trace from.
RootPair ==
    [class |-> JavaFilesMapKeys[ActualController(endpoint.controller)],
     method |-> endpoint.method]

EdgesOf(pair) ==
    LET ci == ResolveClass(pair.class) IN
    IF ci = 0 THEN {}
    ELSE LET mj == ResolveMethod(ci, pair.method) IN
         IF mj = 0 THEN {}
         ELSE { parsed_classes[ci].methods[mj].calls[k] :
                  k \in 1..Len(parsed_classes[ci].methods[mj].calls) }

RECURSIVE ReachFrom(_, _)
ReachFrom(frontier, seen) ==
    IF frontier = {} THEN seen
    ELSE LET next == (UNION { EdgesOf(p) : p \in frontier }) \ seen IN
         ReachFrom(next, seen \cup next)

\* The pairs reachable from the root, the root included.
Reachable == ReachFrom({RootPair}, {RootPair})

-----------------------------------------------------------------------------
(* Flow trees.                                                             *)

\* The declared method a requested pair resolves to, as <<class index,
\* method index>>; an index is 0 when the lookup fails.
ResolvedMethod(pair) ==
    LET ci == ResolveClass(pair.class) IN
    IF ci = 0 THEN <<0, 0>> ELSE <<ci, ResolveMethod(ci, pair.method)>>

\* The declared methods the trace from the root can reach.
CycleMethods == { ResolvedMethod(p) : p \in Reachable }

\* The call edges of the repository are exactly one cycle through the root's
\* method: every reachable pair resolves to a method with a single call, some
\* call leads back to the root's method, and no other method calls anything.
IsPureCycle ==
    /\ \A p \in Reachable :
          /\ ResolvedMethod(p)[1] # 0
          /\ ResolvedMethod(p)[2] # 0
          /\ Cardinality(EdgesOf(p)) = 1
    /\ \E p \in Reachable : \E q \in EdgesOf(p) :
          ResolvedMethod(q) = ResolvedMethod(RootPair)
    /\ CountEdges(parsed_classes) = Cardinality(CycleMethods)

RECURSIVE CycleDepths(_, _)
\* The depths (root = 1) of the nodes flagged as a cycle in a tree.
CycleDepths(node, d) ==
    (IF node.is_cycle THEN {d} ELSE {})
    \cup UNION { CycleDepths(node.calls[i], d + 1) : i \in 1..Len(node.calls) }

RECURSIVE AllNodes(_)
AllNodes(node) ==
    {node} \cup UNION { AllNodes(node.calls[i]) : i \in 1..Len(node.calls) }

\* The pairs requested by the activations below the top one: the current
\* root-to-node path.
AncestorKeys ==
    { MethodKey(stack[i].arg_class, stack[i].method_name) :
        i \in 1..(Len(stack) - 1) }

\* The node the step just taken returned to its caller.
ReturnedNode(stk, mf) ==
    IF stk = << >> THEN mf
    ELSE stk[Len(stk)].calls[Len(stk[Len(stk)].calls)]

-----------------------------------------------------------------------------
(* EndpointParser._parse_file: the endpoints of a controller file.         *)

\* request_mapping_match: the first @RequestMapping with a quoted path in
\* the text, the class-level one if the class has it, else a method's.
FirstRequestMappingPath(file) ==
    IF file.base # NoPath THEN file.base
    ELSE LET S == { j \in 1..Len(file.methods) :
                      /\ file.methods[j].annotation = "@RequestMapping"
                      /\ file.methods[j].path # NoPath }
         IN IF S = {} THEN NoPath ELSE file.methods[FirstOf(S)].path

\* base_path = request_mapping_match.group(1).strip('/'), "" without a match
BasePath(file) ==
    IF FirstRequestMappingPath(file) = NoPath THEN << >>
    ELSE Strip(FirstRequestMappingPath(file))

\* Construct full path with base path
FullPath(base_path, path) ==
    IF base_path # << >>
    THEN IF StartsWithSlash(path) THEN <<"/">> \o base_path \o path
         ELSE <<"/">> \o base_path \o <<"/">> \o path
    ELSE IF ~StartsWithSlash(path) THEN <<"/">> \o path
         ELSE path

\* mapping_patterns, in the order of the list: the annotation, the
\* RequestMethod the annotation must name ("" when the pattern asks for
\* none) and the verb recorded.
mapping_patterns ==
    << [annotation |-> "@GetMapping", request_method |-> "", http_method |-> "GET"],
       [annotation |-> "@PostMapping", request_method |-> "", http_method |-> "POST"],
       [annotation |-> "@PutMapping", request_method |-> "", http_method |-> "PUT"],
       [annotation |-> "@DeleteMapping", request_method |-> "", http_method |-> "DELETE"],
       [annotation |-> "@RequestMapping", request_method |-> "GET", http_method |-> "GET"],
       [annotation |-> "@RequestMapping", request_method |-> "POST", http_method |-> "POST"],
       [annotation |-> "@RequestMapping", request_method |-> "PUT", http_method |-> "PUT"],
       [annotation |-> "@RequestMapping", request_method |-> "DELETE", http_method |-> "DELETE"] >>

fallback_mapping_patterns == SubSeq(mapping_patterns, 1, 4)

\* (?:ResponseEntity|[\w<>]+) on the tokens of a return type
PrimaryReturnType(t) ==
    /\ t # << >>
    /\ \A k \in 1..Len(t) : IsWord(t[k]) \/ t[k] \in {"<", ">"}

\* \w+(?:<[^>]*>)? on the tokens of a return type
FallbackReturnType(t) ==
    /\ t # << >>
    /\ IsWord(t[1])
    /\ \/ Len(t) = 1
       \/ /\ Len(t) >= 3
          /\ t[2] = "<"
          /\ t[Len(t)] = ">"
          /\ \A k \in 3..(Len(t) - 1) : t[k] # ">"

\* A mapping pattern matches a method: the annotation with a quoted path as
\* its first argument (and the RequestMethod, if the pattern names one),
\* then `public`, a return type of the pattern's shape, the name and "(".
PatternMatches(p, m, primary) ==
    /\ m.annotation = p.annotation
    /\ m.path # NoPath
    /\ p.request_method # "" => m.request_method = p.request_method
    /\ m.modifier = "public"
    /\ IF primary THEN PrimaryReturnType(m.return_type)
       ELSE FallbackReturnType(m.return_type)

RECURSIVE SortedSeq(_)
\* The elements of a set of numbers, ascending.
SortedSeq(S) ==
    IF S = {} THEN << >>
    ELSE <<FirstOf(S)>> \o SortedSeq(S \ {FirstOf(S)})

\* The endpoint dict (without the method text and its service calls).
Endpoint(file, m, http_method) ==
    [controller |-> ExtractClassName(file), method |-> m.name,
     http_method |-> http_method, path |-> FullPath(BasePath(file), m.path),
     has_services |-> FALSE, services |-> << >>,
     has_repositories |-> FALSE, repositories |-> << >>]

\* for match in re.finditer(pattern, content): the matches of one pattern in
\* the order of the text; the primary patterns skip a constructor.
EndpointsOfPattern(file, p, primary) ==
    LET idx == SortedSeq({ j \in 1..Len(file.methods) :
                   /\ PatternMatches(p, file.methods[j], primary)
                   /\ primary => file.methods[j].name # ExtractClassName(file) })
    IN [k \in 1..Len(idx) |-> Endpoint(file, file.methods[idx[k]], p.http_method)]

EndpointsOfPatterns(file, patterns, primary) ==
    Concat([q \in 1..Len(patterns) |->
               EndpointsOfPattern(file, patterns[q], primary)])

\* _parse_file: nothing for a file that is not a controller; the fallback
\* patterns are tried only if the primary ones found no endpoint.
ParseFile(file) ==
    IF ~IsController(file) THEN << >>
    ELSE IF EndpointsOfPatterns(file, mapping_patterns, TRUE) # << >>
         THEN EndpointsOfPatterns(file, mapping_patterns, TRUE)
         ELSE EndpointsOfPatterns(file, fallback_mapping_patterns, FALSE)

-----------------------------------------------------------------------------
(* EndpointParser._parse_entity_file, on the tokens of the field           *)
(* declarations of the file.                                               *)

Modifiers == {"private", "protected", "public"}

\* The Java text of a field declaration, as tokens.
FieldTokens(d) ==
    (IF d.annotation = "" THEN << >>
     ELSE IF d.args THEN <<d.annotation, "(", "mappedBy", ")">>
     ELSE <<d.annotation>>)
    \o <<"private">> \o d.type \o <<d.name, ";">>

ContentTokens(file) ==
    Concat([k \in 1..Len(file.fields) |-> FieldTokens(file.fields[k])])

\* The first position after i holding token t, 0 if none.
NextToken(c, i, t) == FirstOf({ k \in (i + 1)..Len(c) : c[k] = t })

\* field_pattern matches from the modifier at i:
\* (?:private|protected|public)\s+([\w<>[\],\s]+)\s+(\w+);
\* (its optional @Column(...) prefix only widens the match to the left).
FieldMatchAt(c, i) ==
    /\ c[i] \in Modifiers
    /\ NextToken(c, i, ";") >= i + 3
    /\ IsWord(c[NextToken(c, i, ";") - 1])
    /\ \A k \in (i + 1)..(NextToken(c, i, ";") - 2) :
          IsWord(c[k]) \/ c[k] \in {"<", ">", "[", "]", ","}

\* {"name": field_name, "type": field_type} of every match, in text order.
FieldMatches(c) ==
    LET idx == SortedSeq({ i \in 1..Len(c) : FieldMatchAt(c, i) })
    IN [k \in 1..Len(idx) |->
          [name |-> c[NextToken(c, idx[k], ";") - 1],
           type |-> SubSeq(c, idx[k] + 1, NextToken(c, idx[k], ";") - 2)]]

\* relationship_patterns, in the order of the list; generic tells whether
\* the target is the type argument (\w+<(\w+)>) or the type itself ((\w+)).
relationship_patterns ==
    << [annotation |-> "@OneToMany", rel_type |-> "OneToMany", generic |-> TRUE],
       [annotation |-> "@ManyToOne", rel_type |-> "ManyToOne", generic |-> FALSE],
       [annotation |-> "@OneToOne", rel_type |-> "OneToOne", generic |-> FALSE],
       [annotation |-> "@ManyToMany", rel_type |-> "ManyToMany", generic |-> TRUE] >>

\* A relationship pattern matches from the annotation at i:
\* @X\s*\([^)]*\)\s*(?:private|protected|public)\s+(\w+)  [ <(\w+)> ]
RelationshipMatchAt(c, i, p) ==
    /\ c[i] = p.annotation
    /\ i + 1 <= Len(c)
    /\ c[i + 1] = "("
    /\ LET close == NextToken(c, i + 1, ")") IN
       /\ close # 0
       /\ close + 2 <= Len(c)
       /\ c[close + 1] \in Modifiers
       /\ IsWord(c[close + 2])
       /\ p.generic =>
            /\ close + 5 <= Len(c)
            /\ c[close + 3] = "<"
            /\ IsWord(c[close + 4])
            /\ c[close + 5] = ">"

RelationshipsOfPattern(c, p) ==
    LET idx == SortedSeq({ i \in 1..Len(c) : RelationshipMatchAt(c, i, p) })
    IN [k \in 1..Len(idx) |->
          [type |-> p.rel_type,
           target_entity |->
               c[NextToken(c, idx[k] + 1, ")") + (IF p.generic THEN 4 ELSE 2)]]]

RelationshipMatches(c) ==
    Concat([q \in 1..Len(relationship_patterns) |->
               RelationshipsOfPattern(c, relationship_patterns[q])])

-----------------------------------------------------------------------------
(* EndpointParser.parse_endpoints: the passes over the files.              *)

\* field_type.endswith(suffix), on the type names of the model.
EndsWith(field_type, suffix) ==
    <<field_type, suffix>> \in
        { <<"BarService", "Service">>, <<"BarRepository", "Repository">> }

\* {"name": method_name, ...} of every method the method pattern of
\* _parse_service_file / _parse_repository_file finds.
MethodRecords(file) == [k \in 1..Len(file.methods) |-> [name |-> file.methods[k].name]]

\* The types of the @Autowired fields of a service file that are a key of
\* self.repositories or end with "Repository", in text order.
AutowiredRepositoryTypes(file) ==
    LET idx == SortedSeq({ k \in 1..Len(file.autowired) :
                   \/ file.autowired[k] \in DOMAIN repositories
                   \/ EndsWith(file.autowired[k], "Repository") })
    IN [k \in 1..Len(idx) |-> file.autowired[idx[k]]]

\* The types of the @Autowired fields of a controller file that are a key of
\* self.services or end with "Service", in text order.
AutowiredServiceTypes(file) ==
    LET idx == SortedSeq({ k \in 1..Len(file.autowired) :
                   \/ file.autowired[k] \in DOMAIN services
                   \/ EndsWith(file.autowired[k], "Service") })
    IN [k \in 1..Len(idx) |-> file.autowired[idx[k]]]

\* mappings[class_name].append(..) for every type of `added`, the list
\* being created on the first append.
MapExtend(map, key, added) ==
    IF added = << >> THEN map
    ELSE MapPut(map, key, (IF key \in DOMAIN map THEN map[key] ELSE << >>) \o added)

\* A pass moves on to its next file, and after its last file to the next pass.
Advance(next_pc) ==
    IF scan_i < Len(java_files)
    THEN scan_i' = scan_i + 1 /\ scan_pc' = scan_pc
    ELSE scan_i' = 1 /\ scan_pc' = next_pc

File == java_files[scan_i]

\* _identify_class_type on a file: a failure to read it is logged and the
\* function returns before it looks for the class name.
ReadKind(file) == IF file.readable THEN ClassKind(file) ELSE "none"

\* A collection that keeps what the call before left in it.
KeepCollected(collection) == collection

\* Reset collections: self.services = {} and the four like it.
Reset(collection) == EmptyMap

\* parse_endpoints up to the first pass: the collections are reset.
ParseEndpointsBegin ==
    /\ scan_pc = "start"
    /\ services' = Reset(services)
    /\ repositories' = Reset(repositories)
    /\ entities' = Reset(entities)
    /\ service_repo_mappings' = Reset(service_repo_mappings)
    /\ controller_service_mappings' = Reset(controller_service_mappings)
    /\ endpoints' = << >>
    /\ scan_i' = 1
    /\ scan_pc' = IF java_files = << >> THEN "enrich" ELSE "first_pass"
    /\ UNCHANGED <<java_files, returned>>
    /\ UNCHANGED nonScanVars

\* First pass: self._identify_class_type(file_path)
IdentifyClassType ==
    /\ scan_pc = "first_pass"
    /\ services' =
         IF ReadKind(File) = "service"
         THEN MapPut(services, ExtractClassName(File),
                     [methods |-> << >>, file_path |-> scan_i])
         ELSE services
    /\ repositories' =
         IF ReadKind(File) = "repository"
         THEN MapPut(repositories, ExtractClassName(File),
                     [methods |-> << >>, file_path |-> scan_i])
         ELSE repositories
    /\ entities' =
         IF ReadKind(File) = "entity"
         THEN MapPut(entities, ExtractClassName(File),
                     [fields |-> << >>, relationships |-> << >>,
                      file_path |-> scan_i])
         ELSE entities
    /\ Advance("second_pass")
    /\ UNCHANGED <<java_files, endpoints, controller_service_mappings,
                   service_repo_mappings, returned>>
    /\ UNCHANGED nonScanVars

\* Second pass, one file: _parse_file, _parse_service_file,
\* _parse_repository_file, _parse_entity_file. Each of the last three acts
\* when the class name of the file is a key of its map.
ParseSecondPass ==
    /\ scan_pc = "second_pass"
    /\ File.readable
    /\ endpoints' = endpoints \o ParseFile(File)
    /\ LET class_name == ExtractClassName(File) IN
       /\ services' =
            IF class_name \in DOMAIN services
            THEN [services EXCEPT ![class_name].methods = @ \o MethodRecords(File)]
            ELSE services
       /\ service_repo_mappings' =
            IF class_name \in DOMAIN services
            THEN MapExtend(service_repo_mappings, class_name,
                           AutowiredRepositoryTypes(File))
            ELSE service_repo_mappings
       /\ repositories' =
            IF class_name \in DOMAIN repositories
            THEN [repositories EXCEPT ![class_name].methods = @ \o MethodRecords(File)]
            ELSE repositories
       /\ entities' =
            IF class_name \in DOMAIN entities
            THEN [entities EXCEPT
                    ![class_name].fields = @ \o FieldMatches(ContentTokens(File)),
                    ![class_name].relationships =
                        @ \o RelationshipMatches(ContentTokens(File))]
            ELSE entities
    /\ Advance("third_pass")
    /\ UNCHANGED <<java_files, controller_service_mappings, returned>>
    /\ UNCHANGED nonScanVars

\* Second pass on a file that cannot be opened: _parse_file logs the error
\* and returns []; _parse_service_file then calls _extract_class_name, whose
\* try has no handler for an OSError, and no caller up to parse_endpoints has
\* one: the exception leaves parse_endpoints.
ParseSecondPassRaises ==
    /\ scan_pc = "second_pass"
    /\ ~File.readable
    /\ scan_pc' = "raised"
    /\ UNCHANGED <<java_files, scan_i, services, repositories, entities,
                   endpoints, controller_service_mappings,
                   service_repo_mappings, returned>>
    /\ UNCHANGED nonScanVars

\* Third pass: self._identify_relationships(file_path); the loop over
\* CONTROLLER_ANNOTATIONS runs its body once per annotation found.
IdentifyRelationships ==
    /\ scan_pc = "third_pass"
    /\ LET class_name == ExtractClassName(File)
           once == AutowiredServiceTypes(File)
           times == Cardinality(File.markers \cap CONTROLLER_ANNOTATIONS)
       IN controller_service_mappings' =
            IF ~File.readable \/ class_name = None
            THEN controller_service_mappings
            ELSE MapExtend(controller_service_mappings, class_name,
                           Concat([k \in 1..times |-> once]))
    /\ Advance("enrich")
    /\ UNCHANGED <<java_files, services, repositories, entities, endpoints,
                   service_repo_mappings, returned>>
    /\ UNCHANGED nonScanVars

RECURSIVE WithoutRepeats(_)
\* A list without the later occurrences of its elements.
WithoutRepeats(s) ==
    IF s = << >> THEN << >>
    ELSE LET front == WithoutRepeats(SubSeq(s, 1, Len(s) - 1))
         IN IF \E k \in 1..Len(front) : front[k] = s[Len(s)]
            THEN front ELSE Append(front, s[Len(s)])

\* An enrichment that lists every repository once.
EnrichedWithoutRepeats(e) ==
    IF e.controller \notin DOMAIN controller_service_mappings THEN e
    ELSE LET svcs == controller_service_mappings[e.controller]
             repos == WithoutRepeats(Concat([k \in 1..Len(svcs) |->
                        IF svcs[k] \in DOMAIN service_repo_mappings
                        THEN service_repo_mappings[svcs[k]] ELSE << >>]))
         IN [e EXCEPT !.has_services = TRUE, !.services = svcs,
                      !.has_repositories = repos # << >>,
                      !.repositories = repos]

\* _enrich_endpoints_with_dependencies on one endpoint.
Enriched(e) ==
    IF e.controller \notin DOMAIN controller_service_mappings THEN e
    ELSE LET svcs == controller_service_mappings[e.controller]
             repos == Concat([k \in 1..Len(svcs) |->
                        IF svcs[k] \in DOMAIN service_repo_mappings
                        THEN service_repo_mappings[svcs[k]] ELSE << >>])
         IN [e EXCEPT !.has_services = TRUE, !.services = svcs,
                      !.has_repositories = repos # << >>,
                      !.repositories = repos]

\* The dict parse_endpoints returns.
Graph(eps) ==
    [endpoints |-> eps, services |-> services, repositories |-> repositories,
     entities |-> entities,
     architecture |-> [controller_service |-> controller_service_mappings,
                       service_repository |-> service_repo_mappings]]

\* self._enrich_endpoints_with_dependencies(endpoints); return {...}
EnrichAndReturn ==
    /\ scan_pc = "enrich"
    /\ endpoints' = [k \in 1..Len(endpoints) |-> Enriched(endpoints[k])]
    /\ returned' =
         Append(returned, Graph([k \in 1..Len(endpoints) |-> Enriched(endpoints[k])]))
    /\ scan_pc' = "done"
    /\ UNCHANGED <<java_files, scan_i, services, repositories, entities,
                   controller_service_mappings, service_repo_mappings>>
    /\ UNCHANGED nonScanVars

\* The caller invokes parse_endpoints again on the same instance and the
\* same, unmodified source tree.
ParseEndpointsAgain ==
    /\ scan_pc = "done"
    /\ Len(returned) < MaxScans
    /\ scan_pc' = "start"
    /\ scan_i' = 0
    /\ UNCHANGED <<java_files, services, repositories, entities, endpoints,
                   controller_service_mappings, service_repo_mappings, returned>>
    /\ UNCHANGED nonScanVars

NextScan ==
    \/ ParseEndpointsBegin
    \/ IdentifyClassType
    \/ ParseSecondPass
    \/ ParseSecondPassRaises
    \/ IdentifyRelationships
    \/ EnrichAndReturn
    \/ ParseEndpointsAgain

-----------------------------------------------------------------------------
(* The repositories parse_endpoints is run on.                             *)

PlainFile(name, declares, markers) ==
    [name |-> name, declares |-> declares, markers |-> markers,
     base |-> NoPath, methods |-> << >>, autowired |-> << >>, fields |-> << >>,
     readable |-> TRUE]

\* The markers a file of the model may carry.
MarkerMenu ==
    {"@RestController", "@Service", "@Component", "@Repository",
     "extends JpaRepository", "@Entity"}

MarkerSets == { S \in SUBSET MarkerMenu : Cardinality(S) <= MaxMarkers }

\* Files that declare the class or interface Foo or Bar, or only an enum.
MarkedFiles ==
    { PlainFile(n, d, ms) :
        n \in {"Foo", "Bar"}, d \in {"class", "interface"}, ms \in MarkerSets }
    \cup { PlainFile("Color", "enum", ms) : ms \in MarkerSets }

PathStrings == SeqsUpTo({"/", "a"}, MaxPathLen)

MethodDecl(annotation, path, request_method, return_type, name) ==
    [annotation |-> annotation, path |-> path, request_method |-> request_method,
     modifier |-> "public", return_type |-> return_type, name |-> name]

\* The methods a controller of the model may declare. All but `helper` carry
\* an HTTP-mapping annotation.
MethodDeclMenu ==
    { MethodDecl("@GetMapping", <<"/", "x">>, "", <<"String">>, "getX"),
      MethodDecl("@PostMapping", <<"x">>, "", <<"List", "<", "String", ">">>, "postX"),
      MethodDecl("@PatchMapping", <<"/", "p">>, "", <<"String">>, "patchP"),
      MethodDecl("@GetMapping", NoPath, "", <<"String">>, "getAll"),
      MethodDecl("@GetMapping", <<"/", "m">>, "",
                 <<"Map", "<", "String", ",", "Object", ">">>, "getMap"),
      MethodDecl("@RequestMapping", <<"/", "r">>, "GET", <<"String">>, "getR"),
      MethodDecl("", NoPath, "", <<"String">>, "helper") }

BarServiceFile ==
    [name |-> "BarService", declares |-> "class", markers |-> {"@Service"},
     base |-> NoPath, methods |-> << >>, autowired |-> <<"BarRepository">>,
     fields |-> << >>, readable |-> TRUE]

\* One controller Foo, alone or with the service it has injected.
ControllerRepos ==
    { <<[name |-> "Foo", declares |-> "class", markers |-> {"@RestController"},
         base |-> b, methods |-> ms, autowired |-> aw, fields |-> << >>,
         readable |-> TRUE]>> \o rest :
        b \in {NoPath, <<"/", "a">>},
        ms \in DistinctSeqs(MethodDeclMenu, MaxMappedMethods),
        aw \in {<< >>, <<"BarService">>, <<"BarService", "BarService">>},
        rest \in {<< >>, <<BarServiceFile>>} }

\* One controller with one GET method: every base path and sub-path.
PathRepos ==
    { <<[name |-> "Foo", declares |-> "class", markers |-> {"@RestController"},
         base |-> b,
         methods |-> <<MethodDecl("@GetMapping", p, "", <<"String">>, "getX")>>,
         autowired |-> << >>, fields |-> << >>, readable |-> TRUE]>> :
        b \in PathStrings \cup {NoPath}, p \in PathStrings }

FieldDecl(annotation, args, type, name) ==
    [annotation |-> annotation, args |-> args, type |-> type, name |-> name]

\* The fields an entity of the model may declare.
FieldDeclMenu ==
    { FieldDecl("@OneToMany", FALSE, <<"List", "<", "LineItem", ">">>, "items"),
      FieldDecl("@OneToMany", TRUE, <<"List", "<", "Note", ">">>, "notes"),
      FieldDecl("", FALSE, <<"List", "<", "Tag", ">">>, "tags"),
      FieldDecl("", FALSE, <<"Long">>, "id"),
      FieldDecl("@ManyToOne", TRUE, <<"Customer">>, "customer") }

\* One entity Order.
EntityRepos ==
    { <<[name |-> "Order", declares |-> "class", markers |-> {"@Entity"},
         base |-> NoPath, methods |-> << >>, autowired |-> << >>,
         fields |-> fs, readable |-> TRUE]>> :
        fs \in { s \in DistinctSeqs(FieldDeclMenu, MaxFields) :
                   \A i, j \in 1..Len(s) : i # j => s[i].name # s[j].name } }

\* A file open() fails on (an OSError: the file is a dangling link, or may
\* not be read). Nothing of its text is known to the parser.
UnreadableFile == [PlainFile("Baz", "class", {"@Service"}) EXCEPT !.readable = FALSE]

\* Repositories that hold an unreadable file among readable ones.
UnreadableRepos ==
    { s \in SeqsUpTo({UnreadableFile, BarServiceFile,
                      PlainFile("Foo", "class", {"@Repository"})}, MaxFiles) :
        \E i \in 1..Len(s) : ~s[i].readable }

JavaFilesSet ==
    SeqsUpTo(MarkedFiles, MaxFiles) \cup ControllerRepos \cup PathRepos
        \cup EntityRepos \cup UnreadableRepos

\* A fresh EndpointParser (__init__) about to run parse_endpoints.
InitScan ==
    /\ java_files \in JavaFilesSet
    /\ scan_pc = "start"
    /\ scan_i = 0
    /\ services = EmptyMap
    /\ repositories = EmptyMap
    /\ entities = EmptyMap
    /\ endpoints = << >>
    /\ controller_service_mappings = EmptyMap
    /\ service_repo_mappings = EmptyMap
    /\ returned = << >>
    /\ FlowIdle
    /\ CallsIdle
    /\ EntryIdle
    /\ RunsIdle
    /\ BlocksIdle
    /\ InstanceIdle
    /\ KindsIdle
    /\ EntitiesIdle
    /\ FlowsEmpty

SpecScan == InitScan /\ [][NextScan]_vars

-----------------------------------------------------------------------------
(* Two parse_endpoints calls that run at the same time, each on the files  *)
(* of its own repository, on one EndpointParser instance or on two. A step *)
(* is one statement of parse_endpoints: the reset, or the body of a loop   *)
(* for one file. The passes are those of the scan above, written as        *)
(* functions of the maps of the instance the call runs on.                 *)

\* The calls.
Calls == 1..NumCalls

\* __init__, and the reset of parse_endpoints: five empty maps.
NewCollections ==
    [services |-> EmptyMap, repositories |-> EmptyMap, entities |-> EmptyMap,
     service_repo_mappings |-> EmptyMap,
     controller_service_mappings |-> EmptyMap]

\* Maps that belong to the module: every call works on the same ones.
GlobalMaps(t) == 1

\* `self` of a call: the maps are attributes of the instance.
Self(t) == instance_of[t]

\* _identify_class_type(file_path) on the maps c.
Identified(c, file, file_path) ==
    LET kind == ReadKind(file)
        class_name == ExtractClassName(file)
    IN IF kind = "service"
       THEN [c EXCEPT !.services =
               MapPut(@, class_name, [methods |-> << >>, file_path |-> file_path])]
       ELSE IF kind = "repository"
       THEN [c EXCEPT !.repositories =
               MapPut(@, class_name, [methods |-> << >>, file_path |-> file_path])]
       ELSE IF kind = "entity"
       THEN [c EXCEPT !.entities =
               MapPut(@, class_name, [fields |-> << >>, relationships |-> << >>,
                                      file_path |-> file_path])]
       ELSE c

\* The types of the @Autowired fields of a file that are a key of `known`
\* or end with the suffix, in text order.
AutowiredTypes(file, known, suffix) ==
    LET idx == SortedSeq({ k \in 1..Len(file.autowired) :
                   \/ file.autowired[k] \in known
                   \/ EndsWith(file.autowired[k], suffix) })
    IN [k \in 1..Len(idx) |-> file.autowired[idx[k]]]

\* _parse_service_file, _parse_repository_file and _parse_entity_file on the
\* maps c: each acts when the class name of the file is a key of its map.
Parsed(c, file) ==
    LET class_name == ExtractClassName(file) IN
    [services |->
        IF class_name \in DOMAIN c.services
        THEN [c.services EXCEPT ![class_name].methods = @ \o MethodRecords(file)]
        ELSE c.services,
     service_repo_mappings |->
        IF class_name \in DOMAIN c.services
        THEN MapExtend(c.service_repo_mappings, class_name,
                       AutowiredTypes(file, DOMAIN c.repositories, "Repository"))
        ELSE c.service_repo_mappings,
     repositories |->
        IF class_name \in DOMAIN c.repositories
        THEN [c.repositories EXCEPT ![class_name].methods = @ \o MethodRecords(file)]
        ELSE c.repositories,
     entities |->
        IF class_name \in DOMAIN c.entities
        THEN [c.entities EXCEPT
                ![class_name].fields = @ \o FieldMatches(ContentTokens(file)),
                ![class_name].relationships =
                    @ \o RelationshipMatches(ContentTokens(file))]
        ELSE c.entities,
     controller_service_mappings |-> c.controller_service_mappings]

\* _identify_relationships(file_path) on the maps c.
Related(c, file) ==
    LET class_name == ExtractClassName(file)
        once == AutowiredTypes(file, DOMAIN c.services, "Service")
        times == Cardinality(file.markers \cap CONTROLLER_ANNOTATIONS)
    IN IF class_name = None THEN c
       ELSE [c EXCEPT !.controller_service_mappings =
               MapExtend(@, class_name, Concat([k \in 1..times |-> once]))]

\* _enrich_endpoints_with_dependencies on one endpoint, with the maps c.
EnrichedWith(c, e) ==
    IF e.controller \notin DOMAIN c.controller_service_mappings THEN e
    ELSE LET svcs == c.controller_service_mappings[e.controller]
             repos == Concat([k \in 1..Len(svcs) |->
                        IF svcs[k] \in DOMAIN c.service_repo_mappings
                        THEN c.service_repo_mappings[svcs[k]] ELSE << >>])
         IN [e EXCEPT !.has_services = TRUE, !.services = svcs,
                      !.has_repositories = repos # << >>,
                      !.repositories = repos]

\* The dict parse_endpoints returns, built from the maps c.
GraphOf(c, eps) ==
    [endpoints |-> [k \in 1..Len(eps) |-> EnrichedWith(c, eps[k])],
     services |-> c.services, repositories |-> c.repositories,
     entities |-> c.entities,
     architecture |-> [controller_service |-> c.controller_service_mappings,
                       service_repository |-> c.service_repo_mappings]]

\* A pass of call t moves on to its next file, and after its last file to
\* the next pass.
RunAdvance(t, next_pc) ==
    IF run_i[t] < Len(run_files[t])
    THEN /\ run_i' = [run_i EXCEPT ![t] = @ + 1]
         /\ run_pc' = run_pc
    ELSE /\ run_i' = [run_i EXCEPT ![t] = 1]
         /\ run_pc' = [run_pc EXCEPT ![t] = next_pc]

RunFile(t) == run_files[t][run_i[t]]

\* Call t resets the collections of its instance; endpoints = [].
RunBegin(t) ==
    /\ run_pc[t] = "start"
    /\ collections' = [collections EXCEPT ![Self(t)] = NewCollections]
    /\ run_endpoints' = [run_endpoints EXCEPT ![t] = << >>]
    /\ run_i' = [run_i EXCEPT ![t] = 1]
    /\ run_pc' = [run_pc EXCEPT ![t] =
                    IF run_files[t] = << >> THEN "enrich" ELSE "first_pass"]
    /\ UNCHANGED <<instance_of, run_files, run_result>>
    /\ UNCHANGED nonRunVars

\* First pass of call t, one file.
RunIdentifyClassType(t) ==
    /\ run_pc[t] = "first_pass"
    /\ collections' = [collections EXCEPT ![Self(t)] =
                         Identified(@, RunFile(t), <<t, run_i[t]>>)]
    /\ RunAdvance(t, "second_pass")
    /\ UNCHANGED <<instance_of, run_files, run_endpoints, run_result>>
    /\ UNCHANGED nonRunVars

\* Second pass of call t, one file.
RunParseSecondPass(t) ==
    /\ run_pc[t] = "second_pass"
    /\ run_endpoints' = [run_endpoints EXCEPT ![t] = @ \o ParseFile(RunFile(t))]
    /\ collections' = [collections EXCEPT ![Self(t)] = Parsed(@, RunFile(t))]
    /\ RunAdvance(t, "third_pass")
    /\ UNCHANGED <<instance_of, run_files, run_result>>
    /\ UNCHANGED nonRunVars

\* Third pass of call t, one file.
RunIdentifyRelationships(t) ==
    /\ run_pc[t] = "third_pass"
    /\ collections' = [collections EXCEPT ![Self(t)] = Related(@, RunFile(t))]
    /\ RunAdvance(t, "enrich")
    /\ UNCHANGED <<instance_of, run_files, run_endpoints, run_result>>
    /\ UNCHANGED nonRunVars

\* Call t enriches its endpoints and returns the maps of its instance.
RunEnrichAndReturn(t) ==
    /\ run_pc[t] = "enrich"
    /\ run_result' = [run_result EXCEPT ![t] =
                        GraphOf(collections[Self(t)], run_endpoints[t])]
    /\ run_pc' = [run_pc EXCEPT ![t] = "done"]
    /\ UNCHANGED <<instance_of, collections, run_files, run_i, run_endpoints>>
    /\ UNCHANGED nonRunVars

NextRuns ==
    \E t \in Calls :
        \/ RunBegin(t)
        \/ RunIdentifyClassType(t)
        \/ RunParseSecondPass(t)
        \/ RunIdentifyRelationships(t)
        \/ RunEnrichAndReturn(t)

\* The repository of the first call: a controller, a service, or both.
FirstRepos ==
    { s \in SeqsUpTo(
          {[name |-> "Foo", declares |-> "class", markers |-> {"@RestController"},
            base |-> <<"/", "a">>,
            methods |-> <<MethodDecl("@GetMapping", <<"/", "x">>, "",
                                     <<"String">>, "getX")>>,
            autowired |-> <<"BarService">>, fields |-> << >>, readable |-> TRUE],
           BarServiceFile}, MaxRunFiles) :
        \A i, j \in 1..Len(s) : i # j => s[i] # s[j] }

\* The repository of the second call: an entity, a repository interface, or
\* both. No class of it has the name of a class of the first.
SecondRepos ==
    { s \in SeqsUpTo(
          {[name |-> "Order", declares |-> "class", markers |-> {"@Entity"},
            base |-> NoPath, methods |-> << >>, autowired |-> << >>,
            fields |-> <<FieldDecl("", FALSE, <<"Long">>, "id")>>,
            readable |-> TRUE],
           PlainFile("OrderRepository", "interface", {"@Repository"})},
          MaxRunFiles) :
        \A i, j \in 1..Len(s) : i # j => s[i] # s[j] }

\* Two calls are about to start: each on an instance of its own
\* (EndpointParser() per call), or both on the one instance of the module.
InitRuns ==
    /\ instance_of \in {[t \in Calls |-> t], [t \in Calls |-> 1]}
    /\ collections = [n \in Calls |-> NewCollections]
    /\ run_files \in { [t \in Calls |-> IF t = 1 THEN a ELSE b] :
                         a \in FirstRepos, b \in SecondRepos }
    /\ run_pc = [t \in Calls |-> "start"]
    /\ run_i = [t \in Calls |-> 0]
    /\ run_endpoints = [t \in Calls |-> << >>]
    /\ run_result = [t \in Calls |-> NoResult]
    /\ FlowIdle
    /\ ScanIdle
    /\ CallsIdle
    /\ EntryIdle
    /\ BlocksIdle
    /\ InstanceIdle
    /\ KindsIdle
    /\ EntitiesIdle
    /\ FlowsEmpty

SpecRuns == InitRuns /\ [][NextRuns]_vars

RECURSIVE FoldIdentified(_, _, _, _)
\* The first pass over files[1..k], from the maps c.
FoldIdentified(c, files, t, k) ==
    IF k = 0 THEN c
    ELSE Identified(FoldIdentified(c, files, t, k - 1), files[k], <<t, k>>)

RECURSIVE FoldParsed(_, _, _)
\* The second pass over files[1..k], from the maps c.
FoldParsed(c, files, k) ==
    IF k = 0 THEN c ELSE Parsed(FoldParsed(c, files, k - 1), files[k])

RECURSIVE FoldRelated(_, _, _)
\* The third pass over files[1..k], from the maps c.
FoldRelated(c, files, k) ==
    IF k = 0 THEN c ELSE Related(FoldRelated(c, files, k - 1), files[k])

\* The graph call t returns when nothing else runs: the three passes one
\* after the other from empty maps.
GraphAlone(files, t) ==
    GraphOf(FoldRelated(
                FoldParsed(
                    FoldIdentified(NewCollections, files, t, Len(files)),
                    files, Len(files)),
                files, Len(files)),
            Concat([k \in 1..Len(files) |-> ParseFile(files[k])]))

-----------------------------------------------------------------------------
(* The entry points on a repository path: EndpointParser.parse_endpoints   *)
(* (scan), EntityParser.parse_entities (parseEntities) and                 *)
(* FlowAnalyzer.analyze_flows (traceFlow), with _find_java_files.          *)
(* The tree below a path has three directories: "main" is src/main/java,   *)
(* "test" is src/test/java, "root" is the repository root itself. A        *)
(* directory of repo_path.unlistable cannot be listed: os.walk, called     *)
(* without onerror, skips it without raising.                              *)

TreeDirs == {"main", "test", "root"}

\* The Java files os.walk(main_java_dir) yields.
WalkMain(repo) ==
    IF "main" \in repo.unlistable THEN {}
    ELSE { f \in repo.files : f.dir = "main" /\ f.java }

\* The Java files os.walk(repo_path) yields: nothing for a path that is
\* not a directory, nothing below a directory that cannot be listed.
WalkAll(repo) ==
    IF repo.kind # "dir" \/ "root" \in repo.unlistable THEN {}
    ELSE { f \in repo.files : f.java /\ f.dir \notin repo.unlistable }

\* A search that scans the whole repository whatever the first one found.
AlwaysFullScan(found) == TRUE

\* if not java_files: nothing was found in the main directory.
NeedsFullScan(found) == found = {}

\* _find_java_files (the same in EndpointParser and in FlowAnalyzer): the
\* main directory first, if it is a directory, then the whole repository
\* if nothing was found.
FindJavaFiles(repo) ==
    LET in_main == IF repo.main_exists THEN WalkMain(repo) ELSE {}
    IN IF NeedsFullScan(in_main) THEN WalkAll(repo) ELSE in_main

\* self.db_annotations of EntityParser.
db_annotations ==
    {"@Entity", "@Table", "@Column", "@Id", "@GeneratedValue", "@OneToMany",
     "@ManyToOne", "@OneToOne", "@ManyToMany", "@JoinColumn", "@JoinTable",
     "@Embeddable", "@Embedded"}

\* EntityParser._parse_file stores a file that holds a database annotation
\* and declares a class.
StoresEntity(f) ==
    f.source.markers \cap db_annotations # {} /\ f.source.declares = "class"

\* The dict parse_entities returns for the files it walked.
EntitiesOf(files) ==
    [entities |->
        [n \in { f.source.name : f \in { g \in files : StoresEntity(g) } } |->
            [name |-> n]],
     count |-> Cardinality({ f \in files : StoresEntity(f) })]

\* The files of a set in some order of listing.
Orderings(files) ==
    { s \in DistinctSeqs(files, Cardinality(files)) : Len(s) = Cardinality(files) }

\* parse_endpoints on a path that is not a directory: it logs the error and
\* returns {"endpoints": []}. analyze_flows goes on with that dict.
ParseEndpointsInputAbsent ==
    /\ entry_pc = "called"
    /\ entry_point \in {"scan", "traceFlow"}
    /\ repo_path.kind # "dir"
    /\ entry_result' = [endpoints |-> << >>]
    /\ entry_pc' = IF entry_point = "scan" THEN "done" ELSE "trace"
    /\ UNCHANGED <<repo_path, entry_point, found_files, read_files>>
    /\ UNCHANGED nonEntryVars

\* parse_endpoints on a directory: java_files = self._find_java_files(..)
ParseEndpointsFind ==
    /\ entry_pc = "called"
    /\ entry_point \in {"scan", "traceFlow"}
    /\ repo_path.kind = "dir"
    /\ found_files' = FindJavaFiles(repo_path)
    /\ entry_pc' = "scan"
    /\ UNCHANGED <<repo_path, entry_point, read_files, entry_result>>
    /\ UNCHANGED nonEntryVars

\* parse_endpoints on a directory: the passes over java_files and the
\* return of the graph.
ParseEndpointsScan ==
    /\ entry_pc = "scan"
    /\ read_files' = found_files
    /\ \E order \in Orderings(found_files) :
          entry_result' =
              GraphAlone([k \in 1..Len(order) |-> order[k].source], 1)
    /\ entry_pc' = IF entry_point = "scan" THEN "done" ELSE "trace"
    /\ UNCHANGED <<repo_path, entry_point, found_files>>
    /\ UNCHANGED nonEntryVars

\* analyze_flows after parse_endpoints: the Java files are searched again
\* and parsed, and every endpoint gets a flow. (The trees of this part hold
\* no controller; the flow of an endpoint is the tracer above.)
AnalyzeFlows ==
    /\ entry_pc = "trace"
    /\ found_files' = FindJavaFiles(repo_path)
    /\ read_files' = read_files \cup FindJavaFiles(repo_path)
    /\ entry_result' = [k \in 1..Len(entry_result.endpoints) |->
                          [endpoint |-> entry_result.endpoints[k]]]
    /\ entry_pc' = "done"
    /\ UNCHANGED <<repo_path, entry_point>>
    /\ UNCHANGED nonEntryVars

\* parse_entities: os.walk(self.repo_path), _parse_file on every Java file,
\* and the return of the entities and their count.
ParseEntities ==
    /\ entry_pc = "called"
    /\ entry_point = "parseEntities"
    /\ found_files' = WalkAll(repo_path)
    /\ read_files' = WalkAll(repo_path)
    /\ entry_result' = EntitiesOf(WalkAll(repo_path))
    /\ entry_pc' = "done"
    /\ UNCHANGED <<repo_path, entry_point>>
    /\ UNCHANGED nonEntryVars

NextEntry ==
    \/ ParseEndpointsInputAbsent
    \/ ParseEndpointsFind
    \/ ParseEndpointsScan
    \/ AnalyzeFlows
    \/ ParseEntities

TreeFile(dir, java, source) == [dir |-> dir, java |-> java, source |-> source]

\* The files a tree of the model may hold: an entity and a text file in the
\* main directory, a test class, and a service at the root.
TreeFileMenu ==
    { TreeFile("main", TRUE, PlainFile("Order", "class", {"@Entity"})),
      TreeFile("main", FALSE, PlainFile("notes", "none", {})),
      TreeFile("test", TRUE, PlainFile("OrderTest", "class", {})),
      TreeFile("root", TRUE, PlainFile("Tool", "class", {"@Service"})) }

\* The paths an entry point is called on: a path that does not exist, a
\* path that names a regular file, and directories.
RepoPathSet ==
    { [kind |-> k, main_exists |-> FALSE, unlistable |-> {}, files |-> {}] :
        k \in {"missing", "file"} }
    \cup
    { r \in [kind : {"dir"}, main_exists : BOOLEAN,
             unlistable : SUBSET TreeDirs,
             files : { S \in SUBSET TreeFileMenu : Cardinality(S) <= MaxTreeFiles }] :
        (\E f \in r.files : f.dir = "main") => r.main_exists }

InitEntry ==
    /\ repo_path \in RepoPathSet
    /\ entry_point \in {"scan", "parseEntities", "traceFlow"}
    /\ entry_pc = "called"
    /\ found_files = {}
    /\ read_files = {}
    /\ entry_result = NoResult
    /\ FlowIdle
    /\ ScanIdle
    /\ CallsIdle
    /\ RunsIdle
    /\ BlocksIdle
    /\ InstanceIdle
    /\ KindsIdle
    /\ EntitiesIdle
    /\ FlowsEmpty

SpecEntry == InitEntry /\ [][NextEntry]_vars

-----------------------------------------------------------------------------
(* One EndpointParser on which parse_endpoints is called for one           *)
(* repository path after the other. A call is one step.                    *)

\* The three passes of parse_endpoints over the files, from the maps c.
Passes(c, files) ==
    FoldRelated(
        FoldParsed(FoldIdentified(c, files, 1, Len(files)), files, Len(files)),
        files, Len(files))

\* Reset collections (parse_endpoints, after the test of the path).
ResetCollections(c) == NewCollections

\* parse_endpoints on a path that is a directory: the files are found, the
\* collections are reset, the passes run and the graph is returned.
ParseEndpointsOnDirectory ==
    /\ inst_paths # << >>
    /\ Len(inst_paths) < MaxInstanceCalls + 1
    /\ \E files \in FirstRepos \cup SecondRepos :
          /\ inst_paths' = Append(inst_paths, [kind |-> "dir", files |-> files])
          /\ inst_collections' = Passes(ResetCollections(inst_collections), files)
          /\ inst_returned' =
               GraphOf(Passes(ResetCollections(inst_collections), files),
                       Concat([k \in 1..Len(files) |-> ParseFile(files[k])]))
    /\ UNCHANGED nonInstVars

\* parse_endpoints on a path that is not a directory: it returns
\* {"endpoints": []} from its first test.
ParseEndpointsOnMissingPath ==
    /\ inst_paths # << >>
    /\ Len(inst_paths) < MaxInstanceCalls + 1
    /\ inst_paths' = Append(inst_paths, [kind |-> "missing", files |-> << >>])
    /\ inst_returned' = [endpoints |-> << >>]
    /\ UNCHANGED inst_collections
    /\ UNCHANGED nonInstVars

NextInstance ==
    \/ ParseEndpointsOnDirectory
    \/ ParseEndpointsOnMissingPath

\* EndpointParser(): the maps are empty and no call has been made. The
\* first entry of inst_paths stands for the construction.
InitInstance ==
    /\ inst_collections = NewCollections
    /\ inst_paths = <<[kind |-> "new", files |-> << >>]>>
    /\ inst_returned = NoResult
    /\ FlowIdle
    /\ ScanIdle
    /\ CallsIdle
    /\ EntryIdle
    /\ RunsIdle
    /\ BlocksIdle
    /\ KindsIdle
    /\ EntitiesIdle
    /\ FlowsEmpty

SpecInstance == InitInstance /\ [][NextInstance]_vars

-----------------------------------------------------------------------------
(* The kind of a class: EndpointParser._identify_class_type for the graph  *)
(* and FlowAnalyzer._determine_class_type for the nodes of a flow.         *)

\* SERVICE_PATTERNS and REPOSITORY_PATTERNS of FlowAnalyzer, in list order.
SERVICE_PATTERNS == <<"@Service\\b", "Service$", "ServiceImpl$">>
REPOSITORY_PATTERNS ==
    <<"@Repository\\b", "Repository$", "Dao$", "JpaRepository\\b",
      "CrudRepository\\b", "MongoRepository\\b">>

\* re.search(pattern, text) on the annotations and class names of the model.
Search(pattern, text) ==
    <<pattern, text>> \in
        { <<"@Service\\b", "@Service">>, <<"Service$", "@Service">>,
          <<"Service$", "BarService">>,
          <<"@Repository\\b", "@Repository">>, <<"Repository$", "@Repository">>,
          <<"Repository$", "BarRepository">>,
          <<"Controller$", "@RestController">>, <<"Controller$", "@Controller">>,
          <<"Controller$", "FooController">> }

\* _extract_annotations: the @Word of the lines of the file.
Annotations(file) ==
    file.markers \cap {"@RestController", "@Controller", "@Service", "@Component",
                       "@Repository", "@Entity"}

\* _determine_class_type: service patterns first, then repository patterns,
\* then an annotation or a name that ends with Controller. The classes of
\* the model implement no interface.
DetermineClassType(file) ==
    IF \E k \in 1..Len(SERVICE_PATTERNS) :
          \/ \E anno \in Annotations(file) : Search(SERVICE_PATTERNS[k], anno)
          \/ Search(SERVICE_PATTERNS[k], file.name)
    THEN "service"
    ELSE IF \E k \in 1..Len(REPOSITORY_PATTERNS) :
          \/ \E anno \in Annotations(file) : Search(REPOSITORY_PATTERNS[k], anno)
          \/ Search(REPOSITORY_PATTERNS[k], file.name)
    THEN "repository"
    ELSE IF \/ \E anno \in Annotations(file) : Search("Controller$", anno)
            \/ Search("Controller$", file.name)
    THEN "controller"
    ELSE "unknown"

\* The class is classified by parse_endpoints (first pass) and by
\* analyze_flows (class_info['class_type'], which the nodes of the class
\* carry).
ClassifyClass ==
    /\ kind_pc = "parsed"
    /\ graph_kind' = ClassKind(class_file)
    /\ class_type' = DetermineClassType(class_file)
    /\ kind_pc' = "done"
    /\ UNCHANGED class_file
    /\ UNCHANGED nonKindVars

NextKinds == ClassifyClass

\* The classes that are classified: four names, every set of markers.
ClassFileSet ==
    { PlainFile(n, "class", ms) :
        n \in {"Foo", "BarService", "BarRepository", "FooController"},
        ms \in MarkerSets }

InitKinds ==
    /\ class_file \in ClassFileSet
    /\ kind_pc = "parsed"
    /\ graph_kind = "none"
    /\ class_type = "none"
    /\ FlowIdle
    /\ ScanIdle
    /\ CallsIdle
    /\ EntryIdle
    /\ RunsIdle
    /\ BlocksIdle
    /\ InstanceIdle
    /\ EntitiesIdle
    /\ FlowsEmpty

SpecKinds == InitKinds /\ [][NextKinds]_vars

-----------------------------------------------------------------------------
(* One EntityParser: __init__, and parse_entities called on it once or     *)
(* more. A step is the start of a call, _parse_file on one file, or the    *)
(* return.                                                                 *)

\* parse_entities up to its loop: the Java files are found. self.entities
\* and self.count are what __init__ or the call before left.
ParseEntitiesBegin ==
    /\ ent_pc = "ready"
    /\ ent_calls < MaxEntityCalls
    /\ ent_i' = 1
    /\ ent_pc' = IF ent_files = << >> THEN "return" ELSE "parse"
    /\ UNCHANGED <<ent_files, ent_entities, ent_count, ent_calls, ent_result>>
    /\ UNCHANGED nonEntVars

\* self._parse_file(java_file): a file that holds a database annotation and
\* declares a class is stored under its class name, and counted.
ParseEntityFile ==
    /\ ent_pc = "parse"
    /\ LET f == ent_files[ent_i] IN
       IF StoresEntity(f)
       THEN /\ ent_entities' = MapPut(ent_entities, f.source.name,
                                      [name |-> f.source.name])
            /\ ent_count' = ent_count + 1
       ELSE UNCHANGED <<ent_entities, ent_count>>
    /\ IF ent_i < Len(ent_files)
       THEN ent_i' = ent_i + 1 /\ ent_pc' = ent_pc
       ELSE ent_i' = 0 /\ ent_pc' = "return"
    /\ UNCHANGED <<ent_files, ent_calls, ent_result>>
    /\ UNCHANGED nonEntVars

\* return {"entities": self.entities, "count": self.count}
ParseEntitiesReturn ==
    /\ ent_pc = "return"
    /\ ent_result' = [entities |-> ent_entities, count |-> ent_count]
    /\ ent_calls' = ent_calls + 1
    /\ ent_pc' = "ready"
    /\ UNCHANGED <<ent_files, ent_i, ent_entities, ent_count>>
    /\ UNCHANGED nonEntVars

NextEntities ==
    \/ ParseEntitiesBegin
    \/ ParseEntityFile
    \/ ParseEntitiesReturn

\* The Java files below a path: the entity Order in the main directory and
\* a class of the same name in the test directory, an entity Item, and a
\* service.
EntityTreeFiles ==
    { TreeFile("main", TRUE, PlainFile("Order", "class", {"@Entity"})),
      TreeFile("test", TRUE, PlainFile("Order", "class", {"@Entity"})),
      TreeFile("main", TRUE, PlainFile("Item", "class", {"@Entity"})),
      TreeFile("root", TRUE, PlainFile("Tool", "class", {"@Service"})) }

\* EntityParser(repo_path): no entity, count 0.
InitEntities ==
    /\ ent_files \in DistinctSeqs(EntityTreeFiles, MaxEntityFiles)
    /\ ent_pc = "ready"
    /\ ent_i = 0
    /\ ent_entities = EmptyMap
    /\ ent_count = 0
    /\ ent_calls = 0
    /\ ent_result = NoResult
    /\ FlowIdle
    /\ ScanIdle
    /\ CallsIdle
    /\ EntryIdle
    /\ RunsIdle
    /\ BlocksIdle
    /\ InstanceIdle
    /\ KindsIdle
    /\ FlowsEmpty

SpecEntities == InitEntities /\ [][NextEntities]_vars

-----------------------------------------------------------------------------
(* The extraction of a method's body: EndpointParser._extract_method_block *)
(* with its callers, and the loop of FlowAnalyzer._extract_methods. The    *)
(* text is a sequence of tokens: "(" and ")" around the parameters of the  *)
(* method, its opening brace, and what follows: braces and other text.     *)

RECURSIVE BraceCount(_, _, _)
\* brace_count after the characters from..to, started at 0.
BraceCount(text, from, to) ==
    IF to < from THEN 0
    ELSE BraceCount(text, from, to - 1)
           + (IF text[to] = "{" THEN 1 ELSE IF text[to] = "}" THEN -1 ELSE 0)

\* _extract_method_block(content, method_start), method_start being the
\* position of the first character scanned: the count starts at 0 and the
\* scan ends at the first closing brace that brings it back to 0. If there
\* is none, method_end stays method_start and the slice is empty.
ExtractMethodBlock(text, method_start) ==
    LET ends == { i \in method_start..Len(text) :
                    text[i] = "}" /\ BraceCount(text, method_start, i) = 0 }
    IN IF ends = {} THEN << >>
       ELSE SubSeq(text, method_start, FirstOf(ends))

\* The loop of _extract_methods: start_pos = content.find('{', match.start()),
\* brace_count = 1, and the scan from start_pos + 1.
ExtractMethodBody(text, match_start) ==
    LET start_pos == FirstOf({ i \in match_start..Len(text) : text[i] = "{" })
        ends == { i \in (start_pos + 1)..Len(text) :
                    text[i] = "}" /\ 1 + BraceCount(text, start_pos + 1, i) = 0 }
    IN IF start_pos = 0 \/ ends = {} THEN << >>
       ELSE SubSeq(text, start_pos, FirstOf(ends))

\* match.end() of method_pattern of _parse_service_file, which ends with \{:
\* the position after the opening brace.
AfterOpeningBrace(text) == FirstOf({ i \in 1..Len(text) : text[i] = "{" }) + 1

\* match.end() of a mapping pattern of _parse_file, which ends with \(: the
\* position after the opening parenthesis.
AfterOpeningParenthesis(text) == FirstOf({ i \in 1..Len(text) : text[i] = "(" }) + 1

\* _parse_file: method_block = self._extract_method_block(content, match.end())
ExtractEndpointBlock ==
    /\ block_pc = "called"
    /\ extractor = "endpoint"
    /\ method_block' = ExtractMethodBlock(content, AfterOpeningParenthesis(content))
    /\ block_pc' = "done"
    /\ UNCHANGED <<content, extractor>>
    /\ UNCHANGED nonBlockVars

\* _parse_service_file: method_block = self._extract_method_block(content, match.end())
ExtractServiceBlock ==
    /\ block_pc = "called"
    /\ extractor = "service"
    /\ method_block' = ExtractMethodBlock(content, AfterOpeningBrace(content))
    /\ block_pc' = "done"
    /\ UNCHANGED <<content, extractor>>
    /\ UNCHANGED nonBlockVars

\* _extract_methods: the body of the method matched at match.start()
ExtractFlowBody ==
    /\ block_pc = "called"
    /\ extractor = "flow"
    /\ method_block' = ExtractMethodBody(content, 1)
    /\ block_pc' = "done"
    /\ UNCHANGED <<content, extractor>>
    /\ UNCHANGED nonBlockVars

NextBlocks ==
    \/ ExtractEndpointBlock
    \/ ExtractServiceBlock
    \/ ExtractFlowBody

\* Text in which every brace has its partner: no prefix closes more braces
\* than it opens, and the whole text closes all of them.
WellNested(text) ==
    /\ \A i \in 1..Len(text) : BraceCount(text, 1, i) >= 0
    /\ BraceCount(text, 1, Len(text)) = 0

\* The texts a body is extracted from: the parameters of a method, its body
\* with blocks nested in it, and what follows the method in the file.
ContentSet ==
    { <<"(", ")", "{">> \o rest : rest \in
        { r \in SeqsUpTo({"{", "}", "a"}, MaxContentLen) : WellNested(<<"{">> \o r) } }

InitBlocks ==
    /\ content \in ContentSet
    /\ extractor \in {"endpoint", "service", "flow"}
    /\ block_pc = "called"
    /\ method_block = << >>
    /\ FlowIdle
    /\ ScanIdle
    /\ CallsIdle
    /\ EntryIdle
    /\ RunsIdle
    /\ InstanceIdle
    /\ KindsIdle
    /\ EntitiesIdle
    /\ FlowsEmpty

SpecBlocks == InitBlocks /\ [][NextBlocks]_vars

-----------------------------------------------------------------------------
(* FlowAnalyzer._extract_method_calls.                                     *)
(* A method body is described by what the regular expressions of the       *)
(* function find in its text: the declarations that bind a name to a type  *)
(* and the call expressions object.method( in text order. An identifier is *)
(* the sequence of its camel-case words, so that lower(), endswith(), the  *)
(* substring tests and the capitalisation of the first letter act on       *)
(* words.                                                                  *)

\* str.lower() on the words of the model.
LowerWord(w) ==
    CASE w = "Account" -> "account"
      [] w = "Service" -> "service"
      [] w = "Dao" -> "dao"
      [] w = "Transfer" -> "transfer"
      [] w = "Balance" -> "balance"
      [] w = "String" -> "string"
      [] w = "Code" -> "code"
      [] w = "Helper" -> "helper"
      [] OTHER -> w

\* w[0].upper() + w[1:] on the words of the model.
UpperFirstWord(w) ==
    CASE w = "account" -> "Account"
      [] w = "repo" -> "Repo"
      [] w = "svc" -> "Svc"
      [] w = "logger" -> "Logger"
      [] OTHER -> w

\* obj[0].upper() + obj[1:] if not obj[0].isupper() else obj
Capitalized(obj) == <<UpperFirstWord(obj[1])>> \o Tail(obj)

\* `fragment in identifier` for some fragment of a set of words
HasWord(identifier, fragments) ==
    \E k \in 1..Len(identifier) : identifier[k] \in fragments

\* `fragment in identifier.lower()` for some fragment of a set of words
HasWordLower(identifier, fragments) ==
    \E k \in 1..Len(identifier) : LowerWord(identifier[k]) \in fragments

\* No class: obj_class = None.
NoClass == << >>

\* A declaration binds its name: it is injected (autowired_pattern), or its
\* type looks like a service or repository (field_pattern and the test on
\* 'Service', 'Repository', 'Dao').
BindsField(d) ==
    \/ d.annotation = "@Autowired"
    \/ HasWord(d.type, {"Service", "Repository", "Dao"})

RECURSIVE FieldBindings(_)
\* autowired_fields[field_name] = field_type for the declarations, in text
\* order, a later one replacing an earlier one of the same name.
FieldBindings(ds) ==
    IF ds = << >> THEN EmptyMap
    ELSE LET front == FieldBindings(SubSeq(ds, 1, Len(ds) - 1))
             d == ds[Len(ds)]
         IN IF BindsField(d) THEN MapPut(front, d.name, d.type) ELSE front

\* A test that finds no method name in the list.
NoUtilityMethod(method) == FALSE

\* method in ['toString', 'equals', 'hashCode', 'println', 'print', 'debug',
\*            'info', 'error', 'warn']
IsUtilityMethod(method) ==
    method \in { <<"to", "String">>, <<"equals">>, <<"hash", "Code">>,
                 <<"println">>, <<"print">>, <<"debug">>, <<"info">>,
                 <<"error">>, <<"warn">> }

\* The class of the object of a call: the type bound to the name, else the
\* capitalised name if it reads like a service, a repository or a dao.
InferClass(obj) ==
    IF obj \in DOMAIN autowired_fields THEN autowired_fields[obj]
    ELSE IF obj[Len(obj)] = "Service" \/ HasWord(obj, {"service"})
         THEN Capitalized(obj)
    ELSE IF HasWordLower(obj, {"repository", "repo", "dao"})
         THEN Capitalized(obj)
    ELSE NoClass

\* The words of the text of a body.
BodyWords(body) ==
    UNION { { body.calls[k].obj[j] : j \in 1..Len(body.calls[k].obj) }
            \cup { body.calls[k].method[j] : j \in 1..Len(body.calls[k].method) } :
              k \in 1..Len(body.calls) }
    \cup UNION { { body.fields[k].type[j] : j \in 1..Len(body.fields[k].type) }
                 \cup { body.fields[k].name[j] : j \in 1..Len(body.fields[k].name) } :
                   k \in 1..Len(body.fields) }

\* any(keyword in method_body.lower() for keyword in [...])
HasKeyword(body) ==
    \E w \in BodyWords(body) :
        LowerWord(w) \in {"transaction", "transfer", "payment", "balance", "account"}

\* transaction_call_pattern (re.IGNORECASE) matches the call expression:
\* (\w+(?:Service|Repository|Dao))\.(\w+(?:Transfer|...|Balance))\s*\(
TransactionMatch(c) ==
    /\ Len(c.obj) >= 2
    /\ LowerWord(c.obj[Len(c.obj)]) \in {"service", "repository", "dao"}
    /\ Len(c.method) >= 2
    /\ LowerWord(c.method[Len(c.method)]) \in
         {"transfer", "transaction", "payment", "deposit", "withdraw",
          "account", "balance"}

\* The matches of transaction_call_pattern in the body, in text order.
TransactionMatches(body) ==
    SortedSeq({ k \in 1..Len(body.calls) : TransactionMatch(body.calls[k]) })

\* call_key = f"{call['class']}.{call['method']}"
CallKey(call) == call.class \o <<".">> \o call.method

\* A list returned as it was collected.
KeepAllCalls(cs) == cs

RECURSIVE UniqueCalls(_)
\* The loop over calls with the set `seen`: the first call of every key.
UniqueCalls(cs) ==
    IF cs = << >> THEN << >>
    ELSE LET front == UniqueCalls(SubSeq(cs, 1, Len(cs) - 1))
             last == cs[Len(cs)]
         IN IF \E k \in 1..Len(front) : CallKey(front[k]) = CallKey(last)
            THEN front
            ELSE Append(front, last)

\* Where the function goes after the loop over service_call_pattern.
AfterServiceCalls ==
    IF HasKeyword(method_body) /\ TransactionMatches(method_body) # << >>
    THEN "transaction"
    ELSE "unique"

\* The three loops that fill autowired_fields.
CollectFields ==
    /\ calls_pc = "start"
    /\ autowired_fields' = FieldBindings(method_body.fields)
    /\ calls_i' = 1
    /\ calls_pc' = IF method_body.calls = << >> THEN AfterServiceCalls
                   ELSE "service_call"
    /\ UNCHANGED <<method_body, calls, unique_calls>>
    /\ UNCHANGED nonCallVars

\* One match of service_call_pattern: skipped if the method is a utility
\* method, appended if the object has a class.
ServiceCall ==
    /\ calls_pc = "service_call"
    /\ LET c == method_body.calls[calls_i] IN
       calls' =
         IF IsUtilityMethod(c.method) \/ InferClass(c.obj) = NoClass
         THEN calls
         ELSE Append(calls, [class |-> InferClass(c.obj), method |-> c.method])
    /\ IF calls_i < Len(method_body.calls)
       THEN calls_i' = calls_i + 1 /\ calls_pc' = calls_pc
       ELSE calls_i' = 1 /\ calls_pc' = AfterServiceCalls
    /\ UNCHANGED <<method_body, autowired_fields, unique_calls>>
    /\ UNCHANGED nonCallVars

\* One match of transaction_call_pattern: appended with the capitalised
\* object name as its class.
TransactionCall ==
    /\ calls_pc = "transaction"
    /\ LET c == method_body.calls[TransactionMatches(method_body)[calls_i]] IN
       calls' = Append(calls, [class |-> Capitalized(c.obj), method |-> c.method])
    /\ IF calls_i < Len(TransactionMatches(method_body))
       THEN calls_i' = calls_i + 1 /\ calls_pc' = calls_pc
       ELSE calls_i' = 1 /\ calls_pc' = "unique"
    /\ UNCHANGED <<method_body, autowired_fields, unique_calls>>
    /\ UNCHANGED nonCallVars

\* Make sure we don't have duplicate calls; return unique_calls
ReturnUniqueCalls ==
    /\ calls_pc = "unique"
    /\ unique_calls' = UniqueCalls(calls)
    /\ calls_pc' = "done"
    /\ UNCHANGED <<method_body, calls_i, autowired_fields, calls>>
    /\ UNCHANGED nonCallVars

NextCalls ==
    \/ CollectFields
    \/ ServiceCall
    \/ TransactionCall
    \/ ReturnUniqueCalls

\* The call expressions a body of the model may hold.
CallExprMenu ==
    { [obj |-> <<"account", "Service">>, method |-> <<"make", "Transfer">>],
      [obj |-> <<"svc">>, method |-> <<"make", "Transfer">>],
      [obj |-> <<"account", "Service">>, method |-> <<"to", "String">>],
      [obj |-> <<"account", "Service">>, method |-> <<"equals">>],
      [obj |-> <<"account", "Dao">>, method |-> <<"get", "Balance">>],
      [obj |-> <<"repo">>, method |-> <<"find">>],
      [obj |-> <<"repo">>, method |-> <<"hash", "Code">>],
      [obj |-> <<"logger">>, method |-> <<"info">>] }

\* The declarations a body of the model may hold.
FieldMenu ==
    { [annotation |-> "", type |-> <<"Account", "Service">>, name |-> <<"svc">>],
      [annotation |-> "", type |-> <<"String">>, name |-> <<"svc">>],
      [annotation |-> "@Autowired", type |-> <<"Helper">>, name |-> <<"svc">>],
      [annotation |-> "", type |-> <<"Account", "Dao">>,
       name |-> <<"account", "Service">>] }

MethodBodies ==
    { [fields |-> fs, calls |-> cs] :
        fs \in SeqsUpTo(FieldMenu, MaxBodyFields),
        cs \in SeqsUpTo(CallExprMenu, MaxBodyCalls) }

InitCalls ==
    /\ method_body \in MethodBodies
    /\ calls_pc = "start"
    /\ calls_i = 0
    /\ autowired_fields = EmptyMap
    /\ calls = << >>
    /\ unique_calls = << >>
    /\ FlowIdle
    /\ ScanIdle
    /\ EntryIdle
    /\ RunsIdle
    /\ BlocksIdle
    /\ InstanceIdle
    /\ KindsIdle
    /\ EntitiesIdle
    /\ FlowsEmpty

SpecCalls == InitCalls /\ [][NextCalls]_vars

-----------------------------------------------------------------------------
(* Claims C1 - C5: the flow tracer.                                        *)

\* C1: flow tracing terminates for every parsed repository and endpoint,
\* cycles in the call graph included: every trace reaches the return of
\* _analyze_endpoint_flow (so every invocation of _analyze_method_flow has
\* returned), and while it runs the recursion depth never exceeds the number
\* of distinct (class, method) pairs reachable from the root, plus one.
FlowTerminatesWithinDepth ==
    /\ [](flow_pc = "trace" => Len(stack) <= Cardinality(Reachable) + 1)
    /\ <>(flow_pc = "done")

\* C1 witness: a trace over a cyclic call graph of at least two pairs stands
\* at the deepest invocation the bound allows, the one that finds the repeat.
FlowDepthBoundAttained ==
    /\ flow_pc = "trace"
    /\ Cardinality(Reachable) >= 2
    /\ Len(stack) = Cardinality(Reachable) + 1
    /\ Top.phase = "enter"
    /\ TopKey \in AncestorKeys

\* C2: an invocation of _analyze_method_flow for a pair that is already on the
\* current root-to-node path returns at once (no further invocation is made
\* from it) a node flagged is_cycle that has no child calls.
CycleInvocationIsTerminal ==
    [][ (/\ flow_pc = "trace"
         /\ stack # << >>
         /\ Top.phase = "enter"
         /\ MethodKey(Top.arg_class, Top.method_name) \in AncestorKeys)
        => (/\ Len(stack') = Len(stack) - 1
            /\ ReturnedNode(stack', method_flow').is_cycle
            /\ ~ReturnedNode(stack', method_flow').has_calls
            /\ ReturnedNode(stack', method_flow').calls = << >>
            /\ ReturnedNode(stack', method_flow').class_name = Top.arg_class
            /\ ReturnedNode(stack', method_flow').method = Top.method_name) ]_vars

\* C2 witness: a caller holds the cycle node an invocation for a pair on its
\* own path returned to it.
CycleNodeReturned ==
    /\ flow_pc = "trace"
    /\ stack # << >>
    /\ Top.phase = "loop"
    /\ Top.calls # << >>
    /\ Top.calls[Len(Top.calls)].is_cycle
    /\ MethodKey(Top.calls[Len(Top.calls)].class_name,
                 Top.calls[Len(Top.calls)].method) \in Top.visited

\* The endpoint names a controller the tracer finds, and a method name that
\* no method of that controller declares.
UnmatchedControllerMethod ==
    /\ endpoint.controller # EmptyName
    /\ ActualController(endpoint.controller) # 0
    /\ \A j \in 1..Len(parsed_classes[ActualController(endpoint.controller)].methods) :
          parsed_classes[ActualController(endpoint.controller)].methods[j].name
              # endpoint.method

\* C3: when the call edges form one cycle of k distinct methods (k >= 2) and
\* the trace starts from a method of the cycle, the finished flow tree holds a
\* node flagged as a cycle at depth at most k + 1 (the root has depth 1), and
\* no node flagged as a cycle has a child.
CycleNodeWithinCycleLength ==
    (/\ flow_pc = "done"
     /\ method_flow # NoNode
     /\ IsPureCycle
     /\ Cardinality(CycleMethods) >= 2)
    => (/\ \E d \in CycleDepths(method_flow, 1) :
              d <= Cardinality(CycleMethods) + 1
        /\ \A n \in AllNodes(method_flow) : n.is_cycle => n.calls = << >>)

\* C4: tracing an endpoint whose method name matches no declared method of
\* its controller always comes to the return of _analyze_endpoint_flow (no
\* step is missing on the way), and the record returned holds the endpoint's
\* controller, path and http_method and a flow list that is empty or holds
\* one best-effort node: labelled with the controller and the requested
\* method, expanded from the first method that carries a mapping annotation
\* or has a similar name, and a childless 'void' node when there is none.
UnmatchedMethodYieldsRecord ==
    UnmatchedControllerMethod =>
      /\ flow_pc # "done" => ENABLED NextFlow
      /\ flow_pc = "done" =>
            LET ci == ActualController(endpoint.controller)
                cands == { j \in 1..Len(parsed_classes[ci].methods) :
                             \/ HasMappingAnnotation(parsed_classes[ci].methods[j])
                             \/ SimilarName(endpoint.method,
                                            parsed_classes[ci].methods[j].name) }
            IN
            /\ flow_result.controller = endpoint.controller
            /\ flow_result.endpoint = endpoint.path
            /\ flow_result.http_method = endpoint.http_method
            /\ Len(flow_result.flow) <= 1
            /\ \A i \in 1..Len(flow_result.flow) :
                  /\ flow_result.flow[i].class_name = parsed_classes[ci].name
                  /\ flow_result.flow[i].method = endpoint.method
                  /\ ~flow_result.flow[i].is_cycle
                  /\ IF cands = {}
                     THEN /\ flow_result.flow[i].return_type = "void"
                          /\ flow_result.flow[i].calls = << >>
                     ELSE /\ flow_result.flow[i].has_calls
                          /\ flow_result.flow[i].return_type =
                               parsed_classes[ci].methods[FirstOf(cands)].return_type

\* C4 witness: the record of an endpoint with an unmatched method name has
\* been returned, its flow holding a node expanded from a fallback method.
UnmatchedMethodBestEffortReturned ==
    /\ flow_pc = "done"
    /\ UnmatchedControllerMethod
    /\ Len(flow_result.flow) = 1
    /\ flow_result.flow[1].has_calls
    /\ flow_result.flow[1].calls # << >>

\* The class name the step just taken settled on for the invocation that was
\* on top of the stack: the resolved name of the expanded frame, or the
\* class_name of the node returned.
SettledClassName(depth, stk, mf) ==
    IF Len(stk) = depth THEN stk[depth].class_name
    ELSE ReturnedNode(stk, mf).class_name

\* C5: an invocation whose requested class is not a known class uses the
\* first known class whose lower-cased name contains, or is contained in, the
\* lower-cased requested name; when there is no such class it returns a
\* childless node with return type 'void' that keeps the requested names.
\* An invocation whose requested class is known exactly uses that class,
\* whatever other classes have similar names.
UnknownClassFallsBackToSimilarName ==
    [][ (/\ flow_pc = "trace"
         /\ stack # << >>
         /\ Top.phase = "enter"
         /\ MethodKey(Top.arg_class, Top.method_name) \notin Top.visited)
        => LET exact == { i \in 1..Len(parsed_classes) :
                            parsed_classes[i].name = Top.arg_class }
               similar == { i \in 1..Len(parsed_classes) :
                              SimilarName(Top.arg_class, parsed_classes[i].name) }
               settled == SettledClassName(Len(stack), stack', method_flow')
           IN
           /\ exact # {} => settled = Top.arg_class
           /\ (exact = {} /\ similar # {}) =>
                 settled = parsed_classes[FirstOf(similar)].name
           /\ (exact = {} /\ similar = {}) =>
                 /\ Len(stack') = Len(stack) - 1
                 /\ ReturnedNode(stack', method_flow') =
                      [class_name |-> Top.arg_class, method |-> Top.method_name,
                       return_type |-> "void", is_cycle |-> FALSE,
                       has_calls |-> FALSE, calls |-> << >>] ]_vars

\* C5 witness: an invocation is being expanded on a class found by a similar
\* name, the requested class not being a known one.
ClassFoundBySimilarName ==
    /\ flow_pc = "trace"
    /\ stack # << >>
    /\ Top.phase = "loop"
    /\ Top.arg_class # Top.class_name
    /\ \A i \in 1..Len(parsed_classes) : parsed_classes[i].name # Top.arg_class

-----------------------------------------------------------------------------
(* Claims C6 - C10: the endpoint parser.                                   *)

\* The file can be read and declares a class or interface, so it has a class
\* name.
DeclaresType(file) == file.readable /\ file.declares \in {"class", "interface"}

\* The text of the file holds one of the markers of the list.
Marked(file, markers) == file.markers \cap markers # {}

\* The kind the priority order controller, service, repository, entity gives
\* a file, read off its declaration and its markers.
KindByPriority(file) ==
    CASE ~DeclaresType(file) -> "none"
      [] DeclaresType(file) /\ Marked(file, CONTROLLER_ANNOTATIONS) -> "controller"
      [] DeclaresType(file) /\ ~Marked(file, CONTROLLER_ANNOTATIONS)
           /\ Marked(file, SERVICE_ANNOTATIONS) -> "service"
      [] DeclaresType(file) /\ ~Marked(file, CONTROLLER_ANNOTATIONS)
           /\ ~Marked(file, SERVICE_ANNOTATIONS)
           /\ Marked(file, REPOSITORY_ANNOTATIONS) -> "repository"
      [] DeclaresType(file) /\ ~Marked(file, CONTROLLER_ANNOTATIONS)
           /\ ~Marked(file, SERVICE_ANNOTATIONS)
           /\ ~Marked(file, REPOSITORY_ANNOTATIONS)
           /\ Marked(file, ENTITY_ANNOTATIONS) -> "entity"
      [] OTHER -> "unknown"

\* The number of maps among services, repositories and entities that have
\* the name as a key.
MapsHolding(name) ==
    (IF name \in DOMAIN services THEN 1 ELSE 0)
    + (IF name \in DOMAIN repositories THEN 1 ELSE 0)
    + (IF name \in DOMAIN entities THEN 1 ELSE 0)

\* C6: after parse_endpoints, every controller class with N methods that
\* carry an HTTP-mapping annotation has exactly N endpoint records, one for
\* each of these methods.
EveryMappedMethodYieldsOneEndpoint ==
    scan_pc = "done" =>
      \A i \in 1..Len(java_files) :
        (DeclaresType(java_files[i])
         /\ Marked(java_files[i], CONTROLLER_ANNOTATIONS)) =>
          LET f == java_files[i]
              mapped == { j \in 1..Len(f.methods) :
                            f.methods[j].annotation \in MAPPING_ANNOTATIONS }
              mine == { k \in 1..Len(endpoints) : endpoints[k].controller = f.name }
          IN /\ Cardinality(mine) = Cardinality(mapped)
             /\ \A j \in mapped :
                   Cardinality({ k \in mine :
                       endpoints[k].method = f.methods[j].name }) = 1

\* C7: the path of every endpoint of a controller with a base path is "/",
\* the base path without the slashes around it, one "/", and the sub-path
\* without the slashes in front of it: exactly one slash at the join,
\* whatever slashes the two parts carry.
FullPathJoinsWithOneSlash ==
    scan_pc = "done" =>
      \A i \in 1..Len(java_files) :
        (/\ DeclaresType(java_files[i])
         /\ Marked(java_files[i], CONTROLLER_ANNOTATIONS)
         /\ java_files[i].base # NoPath
         /\ Strip(java_files[i].base) # << >>) =>
          \A k \in 1..Len(endpoints) :
            endpoints[k].controller = java_files[i].name =>
              \E j \in 1..Len(java_files[i].methods) :
                /\ java_files[i].methods[j].name = endpoints[k].method
                /\ endpoints[k].path =
                     <<"/">> \o Strip(java_files[i].base) \o <<"/">>
                        \o LStrip(java_files[i].methods[j].path)

\* C8: _identify_class_type gives a file the first kind, in the order
\* controller, service, repository, entity, whose markers its text holds:
\* the class name becomes a key of the map of that kind only (of no map for
\* a controller or a file without markers), and a file that declares no
\* class or interface changes no map.
ClassificationFollowsPriority ==
    [][ scan_pc = "first_pass" =>
          LET f == java_files[scan_i]
              kind == KindByPriority(f)
          IN /\ kind = "service" =>
                  /\ f.name \in DOMAIN services'
                  /\ services'[f.name].file_path = scan_i
                  /\ repositories' = repositories /\ entities' = entities
             /\ kind = "repository" =>
                  /\ f.name \in DOMAIN repositories'
                  /\ repositories'[f.name].file_path = scan_i
                  /\ services' = services /\ entities' = entities
             /\ kind = "entity" =>
                  /\ f.name \in DOMAIN entities'
                  /\ entities'[f.name].file_path = scan_i
                  /\ services' = services /\ repositories' = repositories
             /\ kind \in {"none", "controller", "unknown"} =>
                  /\ services' = services
                  /\ repositories' = repositories
                  /\ entities' = entities ]_vars

\* C8 witness: the first pass is over, and a file whose text holds a service
\* marker and a repository marker has been recorded as a service and not as
\* a repository.
ServiceMarkerBeatsRepositoryMarker ==
    /\ scan_pc = "second_pass"
    /\ \E i \in 1..Len(java_files) :
         /\ DeclaresType(java_files[i])
         /\ Marked(java_files[i], SERVICE_ANNOTATIONS)
         /\ Marked(java_files[i], REPOSITORY_ANNOTATIONS)
         /\ java_files[i].name \in DOMAIN services
         /\ services[java_files[i].name].file_path = i
         /\ java_files[i].name \notin DOMAIN repositories

\* After parse_endpoints: every class name is a key of at most one of the
\* three maps, and the class of a controller file or of a file without
\* markers is a key of none.
OneKindPerClassName ==
    /\ \A i \in 1..Len(java_files) :
          DeclaresType(java_files[i]) => MapsHolding(java_files[i].name) <= 1
    /\ \A i \in 1..Len(java_files) :
          KindByPriority(java_files[i]) \in {"controller", "unknown"} =>
              MapsHolding(java_files[i].name) = 0

\* The files of the repository declare pairwise distinct class names.
DistinctClassNames ==
    \A i, j \in 1..Len(java_files) :
        (i # j /\ DeclaresType(java_files[i]) /\ DeclaresType(java_files[j]))
            => java_files[i].name # java_files[j].name

\* C9, as stated: after any parse_endpoints call every class name has
\* exactly one kind.
EveryClassNameHasOneKind == scan_pc = "done" => OneKindPerClassName

\* C9, amended: after a parse_endpoints call over files that declare
\* pairwise distinct class names, every class name is a key of at most one
\* of services, repositories and entities, and a class classified as
\* controller or matching no rule is a key of none of them.
DistinctClassNamesHaveOneKind ==
    (scan_pc = "done" /\ DistinctClassNames) => OneKindPerClassName

\* C9 witness: parse_endpoints is over for two files with different class
\* names, a controller that also carries a service marker and is in no map,
\* and a service that also carries a repository marker.
ControllerAndServiceClassified ==
    /\ scan_pc = "done"
    /\ DistinctClassNames
    /\ \E i, j \in 1..Len(java_files) :
         /\ KindByPriority(java_files[i]) = "controller"
         /\ Marked(java_files[i], SERVICE_ANNOTATIONS)
         /\ MapsHolding(java_files[i].name) = 0
         /\ KindByPriority(java_files[j]) = "service"
         /\ Marked(java_files[j], REPOSITORY_ANNOTATIONS)
         /\ MapsHolding(java_files[j].name) = 1

\* C10: for every entity, a field annotated @OneToMany over List<Target> has
\* exactly one relationship entry (type OneToMany, target Target) and no
\* plain-field entry of its name; a field without a relationship annotation
\* has one plain-field entry and no relationship entry.
EntityFieldRecordedInOnePlace ==
    scan_pc = "done" =>
      \A i \in 1..Len(java_files) :
        (KindByPriority(java_files[i]) = "entity"
         /\ java_files[i].name \in DOMAIN entities) =>
          \A n \in 1..Len(java_files[i].fields) :
            LET d == java_files[i].fields[n]
                e == entities[java_files[i].name]
                plain == { k \in 1..Len(e.fields) : e.fields[k].name = d.name }
                rels == { k \in 1..Len(e.relationships) :
                            e.relationships[k].target_entity = d.type[Len(d.type) - 1] }
            IN /\ (d.annotation = "@OneToMany" /\ d.type[1] = "List") =>
                    /\ Cardinality(rels) = 1
                    /\ \A k \in rels : e.relationships[k].type = "OneToMany"
                    /\ plain = {}
               /\ d.annotation = "" =>
                    /\ Cardinality(plain) = 1
                    /\ Len(d.type) > 1 => rels = {}

-----------------------------------------------------------------------------
(* Claims C18 - C20: the flow tracer, visited set and method recovery.     *)

\* The pairs requested by the activations below activation i.
KeysBelow(stk, i) ==
    { MethodKey(stk[j].arg_class, stk[j].method_name) : j \in 1..(i - 1) }

\* C18: the visited set is scoped to the path. After every step of a trace
\* the visited set of each activation holds exactly the pairs requested by
\* its ancestors (and its own pair once it is being expanded), whatever was
\* expanded in sibling branches; and an invocation returns a node flagged as
\* a cycle exactly when its pair is requested by one of its ancestors, so a
\* pair expanded in one branch is expanded again in a sibling branch.
VisitedSetIsPathScoped ==
    [][ /\ flow_pc' = "trace" =>
             \A i \in 1..Len(stack') :
                 stack'[i].visited =
                     KeysBelow(stack', i)
                     \cup (IF stack'[i].phase = "loop"
                           THEN {MethodKey(stack'[i].arg_class,
                                           stack'[i].method_name)}
                           ELSE {})
        /\ (/\ flow_pc = "trace"
            /\ stack # << >>
            /\ Top.phase = "enter")
           => ((/\ Len(stack') = Len(stack) - 1
                /\ ReturnedNode(stack', method_flow').is_cycle)
               <=> MethodKey(Top.arg_class, Top.method_name) \in AncestorKeys)
      ]_vars

\* C18 witness: in a finished flow tree the same (class, method) pair is an
\* expanded node, not a cycle node, in two sibling branches below the root.
SamePairExpandedInSiblingBranches ==
    /\ flow_pc = "done"
    /\ method_flow # NoNode
    /\ \E i, j \in 1..Len(method_flow.calls) :
         /\ i < j
         /\ \E n1 \in AllNodes(method_flow.calls[i]) :
            \E n2 \in AllNodes(method_flow.calls[j]) :
                /\ n1.class_name = n2.class_name
                /\ n1.method = n2.method
                /\ n1.has_calls /\ ~n1.is_cycle
                /\ n2.has_calls /\ ~n2.is_cycle

\* The first method of a class that satisfies a test; 0 if none does.
\* (a) the method carries the mapping annotation of the endpoint's verb
LadderByVerb(ci) ==
    FirstOf({ j \in 1..Len(parsed_classes[ci].methods) :
                \E k \in 1..Len(parsed_classes[ci].methods[j].annotations) :
                    parsed_classes[ci].methods[j].annotations[k]
                        = MappingAnnotationOf(endpoint.http_method) })

\* (c) the method's name is similar to the requested one
LadderBySimilarName(ci) ==
    FirstOf({ j \in 1..Len(parsed_classes[ci].methods) :
                SimilarName(endpoint.method, parsed_classes[ci].methods[j].name) })

\* (d) the method carries any annotation of the request-mapping family
LadderByAnyMapping(ci) ==
    FirstOf({ j \in 1..Len(parsed_classes[ci].methods) :
                HasMappingAnnotation(parsed_classes[ci].methods[j]) })

\* The method the strategies give when tried in the order (a), (b), (c),
\* (d). The alias table of (b) has entries for makeTransfer, withdraw,
\* deposit, checkAccountBalance and createAccount only, so it gives nothing
\* for the method names of the model.
LadderMethod(ci) ==
    IF LadderByVerb(ci) # 0 THEN LadderByVerb(ci)
    ELSE IF LadderBySimilarName(ci) # 0 THEN LadderBySimilarName(ci)
    ELSE LadderByAnyMapping(ci)

\* C19: when the endpoint's method name is absent from its controller, the
\* flow returned is the one of the method given by the first strategy that
\* yields a method, in the order (a) mapping annotation of the endpoint's
\* verb, (b) alias table, (c) similar name, (d) any request-mapping
\* annotation: its node has that method's return type; only when all fail it
\* is a childless node with the default return type 'void'.
RecoveryFollowsStrategyOrder ==
    (flow_pc = "done" /\ UnmatchedControllerMethod) =>
        LET ci == ActualController(endpoint.controller) IN
        /\ Len(flow_result.flow) = 1
        /\ IF LadderMethod(ci) = 0
           THEN /\ flow_result.flow[1].return_type = "void"
                /\ ~flow_result.flow[1].has_calls
           ELSE /\ flow_result.flow[1].has_calls
                /\ flow_result.flow[1].return_type =
                     parsed_classes[ci].methods[LadderMethod(ci)].return_type

\* C20: no node of a finished flow tree has a direct child with its own
\* (class, method).
NoChildRepeatsItsParent ==
    (flow_pc = "done" /\ method_flow # NoNode) =>
        \A n \in AllNodes(method_flow) :
            \A i \in 1..Len(n.calls) :
                ~(/\ n.calls[i].class_name = n.class_name
                  /\ n.calls[i].method = n.method)

-----------------------------------------------------------------------------
(* Claims C13, C15: repeated scans and unreadable files.                   *)

\* C13: every later parse_endpoints call on the same instance and the same
\* source tree returns the graph the first call returned: the same
\* endpoints, services, repositories, entities and relationship maps, with
\* nothing left over from the call before.
RepeatedScanReturnsSameGraph ==
    \A i \in 1..Len(returned) : returned[i] = returned[1]

\* C13 witness: a second call has returned, and its graph holds endpoints, a
\* service with its repository and a controller with its service.
SecondScanOfControllerAndService ==
    /\ scan_pc = "done"
    /\ Len(returned) = 2
    /\ returned[2].endpoints # << >>
    /\ returned[2].services # EmptyMap
    /\ returned[2].architecture.controller_service # EmptyMap
    /\ returned[2].architecture.service_repository # EmptyMap

\* C15: a file that cannot be read never makes parse_endpoints raise: the
\* call goes on to return a graph, in which the unreadable file has no
\* endpoint and its class no entry, while the files that can be read are
\* recorded as their kind.
ReadFailureNeverLeavesTheScan ==
    /\ scan_pc # "raised"
    /\ scan_pc = "done" =>
         \A i \in 1..Len(java_files) :
             IF java_files[i].readable
             THEN KindByPriority(java_files[i]) = "service"
                      => java_files[i].name \in DOMAIN services
             ELSE /\ MapsHolding(java_files[i].name) = 0
                  /\ \A k \in 1..Len(endpoints) :
                         endpoints[k].controller # java_files[i].name

-----------------------------------------------------------------------------
(* Claims C11, C12: the calls extracted from a method body.                *)

\* C11: the list _extract_method_calls returns holds each (class, method)
\* pair at most once, and holds every pair that was detected, however often
\* and by whichever rule (bound name, naming convention, transaction
\* pattern) it was detected.
EachPairExtractedOnce ==
    calls_pc = "done" =>
        /\ \A i, j \in 1..Len(unique_calls) :
               i # j => ~(/\ unique_calls[i].class = unique_calls[j].class
                          /\ unique_calls[i].method = unique_calls[j].method)
        /\ { unique_calls[k] : k \in 1..Len(unique_calls) }
             = { calls[k] : k \in 1..Len(calls) }

\* C11 witness: a body with a bound name and a transaction keyword has been
\* processed; a pair was detected at least three times and two pairs are
\* returned.
PairDetectedByEveryRule ==
    /\ calls_pc = "done"
    /\ autowired_fields # EmptyMap
    /\ HasKeyword(method_body)
    /\ Len(unique_calls) = 2
    /\ \E i, j, k \in 1..Len(calls) :
         /\ i < j /\ j < k
         /\ calls[i] = calls[j] /\ calls[j] = calls[k]

\* The method names that are never an edge: toString, equals, hashCode,
\* println and the log-level names debug, info, warn, error.
ExcludedMethodNames ==
    { <<"to", "String">>, <<"equals">>, <<"hash", "Code">>, <<"println">>,
      <<"debug">>, <<"info">>, <<"warn">>, <<"error">> }

-----------------------------------------------------------------------------
(* Claim C16: two analyses at the same time.                               *)

\* The class names a graph holds, and the class names of a repository.
ClassesIn(graph) ==
    DOMAIN graph.services \cup DOMAIN graph.repositories
        \cup DOMAIN graph.entities
        \cup DOMAIN graph.architecture.controller_service
        \cup { graph.endpoints[k].controller : k \in 1..Len(graph.endpoints) }

ClassesOf(files) == { files[k].name : k \in 1..Len(files) }

\* C16: When the two calls run on separate EndpointParser instances, every
\* call that has returned, whatever the interleaving of the steps of the
\* two, has returned the graph it returns when it runs alone. (That a shared
\* instance has a corrupting interleaving is the reachable state
\* SharedInstanceMixesRepositories.)
SeparateInstancesAreIsolated ==
    instance_of # << >> /\ instance_of[1] # instance_of[2] =>
        \A t \in Calls :
            run_pc[t] = "done" => run_result[t] = GraphAlone(run_files[t], t)

\* On one shared instance both calls have returned, and the graph of the
\* first holds a class of the repository of the second and has lost a class
\* of its own.
SharedInstanceMixesRepositories ==
    /\ instance_of # << >>
    /\ instance_of[1] = instance_of[2]
    /\ \A t \in Calls : run_pc[t] = "done"
    /\ ClassesIn(run_result[1]) \cap ClassesOf(run_files[2]) # {}
    /\ ClassesOf(run_files[1]) \ ClassesIn(run_result[1]) # {}

-----------------------------------------------------------------------------
(* Claims C14, C17: the repository path and the search for Java files.     *)

\* What an entry point returns for a directory that holds no file.
EmptyRepositoryResult(entry) ==
    IF entry = "scan"
    THEN [endpoints |-> << >>, services |-> EmptyMap, repositories |-> EmptyMap,
          entities |-> EmptyMap,
          architecture |-> [controller_service |-> EmptyMap,
                            service_repository |-> EmptyMap]]
    ELSE IF entry = "parseEntities"
    THEN [entities |-> EmptyMap, count |-> 0]
    ELSE << >>

\* C14: An entry point that has returned for a path that is missing or not
\* a directory has returned a result that differs from its result for an
\* empty repository, and has read no file.
InputAbsentIsReported ==
    entry_pc = "done" /\ repo_path.kind # "dir" =>
        /\ entry_result # EmptyRepositoryResult(entry_point)
        /\ read_files = {}

\* C17: The list _find_java_files has returned for a directory holds only
\* Java files of the tree. When the main directory exists, can be listed
\* and holds a Java file, the list is the Java files of the main directory;
\* when no directory fails to list and the main directory is missing or
\* holds no Java file, the list is every Java file of the tree.
SearchPrefersMainDirectory ==
    entry_point \in {"scan", "traceFlow"} /\ entry_pc \in {"scan", "done"}
        /\ repo_path.kind = "dir" =>
        LET java == { f \in repo_path.files : f.java }
            main == { f \in java : f.dir = "main" }
        IN /\ found_files \subseteq java
           /\ repo_path.main_exists /\ main # {}
                  /\ "main" \notin repo_path.unlistable => found_files = main
           /\ repo_path.unlistable = {}
                  /\ (~repo_path.main_exists \/ main = {}) => found_files = java

\* A scan has returned for a tree with a Java file in the main directory
\* and Java files elsewhere: only the file of the main directory was found
\* and read.
MainDirectoryFilesOnly ==
    /\ entry_point = "scan"
    /\ entry_pc = "done"
    /\ repo_path.unlistable = {}
    /\ \E f \in repo_path.files : f.java /\ f.dir = "test"
    /\ \E f \in repo_path.files : f.java /\ f.dir = "root"
    /\ found_files # {}
    /\ \A f \in found_files : f.dir = "main"
    /\ read_files = found_files

-----------------------------------------------------------------------------
(* Claim C21: the class of a call on a bound name.                         *)

\* C21: When a body has been extracted, every call expression whose object
\* is a bound name (and whose method is not a utility method) has an edge to
\* the type bound to the name, and no edge to the class the naming
\* convention gives for the name when that class differs from the bound type.
BoundTypeIsTheOnlyTarget ==
    calls_pc = "done" =>
        \A k \in 1..Len(method_body.calls) :
            LET c == method_body.calls[k] IN
            c.obj \in DOMAIN autowired_fields /\ ~IsUtilityMethod(c.method) =>
                /\ \E j \in 1..Len(unique_calls) :
                      unique_calls[j] =
                          [class |-> autowired_fields[c.obj], method |-> c.method]
                /\ Capitalized(c.obj) # autowired_fields[c.obj] =>
                      \A j \in 1..Len(unique_calls) :
                          unique_calls[j] #
                              [class |-> Capitalized(c.obj), method |-> c.method]

-----------------------------------------------------------------------------
(* Claim C22: the body of a method.                                        *)

\* The closing brace that matches the brace at `open`: the first one after
\* it with well-nested text in between.
MatchingBrace(text, open) ==
    FirstOf({ i \in (open + 1)..Len(text) :
                text[i] = "}" /\ WellNested(SubSeq(text, open + 1, i - 1)) })

\* C22: The text extracted for a method holds the opening brace of the
\* method and ends with the closing brace that matches it: it starts at the
\* opening brace, or before it in the parameters of the method, and runs to
\* the matching brace.
BodyRunsToTheMatchingBrace ==
    block_pc = "done" =>
        \E from \in 1..3 :
            method_block = SubSeq(content, from, MatchingBrace(content, 3))

-----------------------------------------------------------------------------
(* Claim C23: the order of the passes of parse_endpoints.                  *)

\* C23: A pass is left only after its last file and for the next pass:
\* the second pass starts when every file has been classified, the third
\* when every file has been through the second, enrichment when every file
\* has been through the third. The two relationship maps are filled in the
\* third pass only.
PassesRunInFixedOrder ==
    [][ /\ scan_pc = "first_pass" /\ scan_pc' # "first_pass" =>
              scan_i = Len(java_files) /\ scan_pc' = "second_pass"
        /\ scan_pc = "second_pass" /\ scan_pc' \notin {"second_pass", "raised"} =>
              scan_i = Len(java_files) /\ scan_pc' = "third_pass"
        /\ scan_pc = "third_pass" /\ scan_pc' # "third_pass" =>
              scan_i = Len(java_files) /\ scan_pc' = "enrich"
        /\ scan_pc # "start"
              /\ (\/ service_repo_mappings' # service_repo_mappings
                  \/ controller_service_mappings' # controller_service_mappings) =>
              scan_pc = "third_pass"
      ]_vars

-----------------------------------------------------------------------------
(* Claim C24: enrichment.                                                  *)

RECURSIVE RepositoriesOf(_, _)
\* The repositories of the services of a list, one service after the other.
RepositoriesOf(svcs, mappings) ==
    IF svcs = << >> THEN << >>
    ELSE (IF Head(svcs) \in DOMAIN mappings THEN mappings[Head(svcs)] ELSE << >>)
            \o RepositoriesOf(Tail(svcs), mappings)

\* C24: The step that enriches the endpoints keeps their number and order;
\* an endpoint whose controller is a key of controller_service_mappings gets
\* the services of that entry and the concatenation of the repositories of
\* these services, and keeps its controller, method, HTTP verb and path; any
\* other endpoint is left as it is.
EnrichmentAddsDependenciesOnly ==
    [][ scan_pc = "enrich" /\ scan_pc' = "done" =>
          /\ Len(endpoints') = Len(endpoints)
          /\ \A k \in 1..Len(endpoints) :
                LET before == endpoints[k]
                    after == endpoints'[k]
                IN IF before.controller \in DOMAIN controller_service_mappings
                   THEN after =
                          [controller |-> before.controller,
                           method |-> before.method,
                           http_method |-> before.http_method,
                           path |-> before.path,
                           has_services |-> TRUE,
                           services |->
                               controller_service_mappings[before.controller],
                           has_repositories |->
                               RepositoriesOf(
                                   controller_service_mappings[before.controller],
                                   service_repo_mappings) # << >>,
                           repositories |->
                               RepositoriesOf(
                                   controller_service_mappings[before.controller],
                                   service_repo_mappings)]
                   ELSE after = before
      ]_vars

\* An endpoint has been enriched with a service its controller injects
\* twice, and lists the repository of that service twice.
EndpointListsRepositoryTwice ==
    /\ scan_pc = "done"
    /\ \E k \in 1..Len(endpoints) :
          /\ endpoints[k].services = <<"BarService", "BarService">>
          /\ endpoints[k].repositories = <<"BarRepository", "BarRepository">>

-----------------------------------------------------------------------------
(* Claim C25: the maps after a sequence of calls.                          *)

\* C25: After any sequence of parse_endpoints calls on one instance its
\* maps hold the data of the most recent call and nothing else: what the
\* passes over the files of that call's path collect from empty maps (no
\* file for a path that is not a directory).
MapsHoldTheMostRecentCallOnly ==
    Len(inst_paths) > 1 =>
        inst_collections =
            FoldRelated(
                FoldParsed(
                    FoldIdentified(NewCollections,
                                   inst_paths[Len(inst_paths)].files, 1,
                                   Len(inst_paths[Len(inst_paths)].files)),
                    inst_paths[Len(inst_paths)].files,
                    Len(inst_paths[Len(inst_paths)].files)),
                inst_paths[Len(inst_paths)].files,
                Len(inst_paths[Len(inst_paths)].files))

-----------------------------------------------------------------------------
(* Claim C26: one kind per class.                                          *)

\* C26: A class that has been classified has the same kind in the graph of
\* the scan and on the nodes of the tracer.
NodesCarryTheKindOfTheGraph ==
    kind_pc = "done" => class_type = graph_kind

-----------------------------------------------------------------------------
(* Claim C27: the count of parse_entities.                                 *)

\* C27: Whenever a parse_entities call has returned, the count it returned
\* is the number of entries of the entities map it returned.
CountIsTheNumberOfEntities ==
    ent_calls > 0 =>
        ent_result.count = Cardinality(DOMAIN ent_result.entities)

-----------------------------------------------------------------------------
(* Claim C28: the level and the path of the nodes analyze_flows returns.   *)

\* C28: In every flow analyze_flows collects, the root has level 0 and the
\* path holding its own "class.method" entry only; every child has its
\* parent's level plus 1 and its parent's path followed by its own entry;
\* and the length of every node's path is its level plus 1.
LevelAndPathFollowTheTree ==
    \A k \in 1..Len(flows) : \A r \in 1..Len(flows[k].flow) :
        LET root == flows[k].flow[r] IN
        /\ root.level = 0
        /\ root.path = <<MethodKey(root.class_name, root.method)>>
        /\ \A n \in AllNodes(root) :
              /\ Len(n.path) = n.level + 1
              /\ \A i \in 1..Len(n.calls) :
                    /\ n.calls[i].level = n.level + 1
                    /\ n.calls[i].path =
                         Append(n.path, MethodKey(n.calls[i].class_name,
                                                  n.calls[i].method))

\* A flow has been collected whose tree holds a node two levels below the
\* root.
FlowHoldsNodeAtLevelTwo ==
    \E k \in 1..Len(flows) : \E r \in 1..Len(flows[k].flow) :
        \E n \in AllNodes(flows[k].flow[r]) : n.level = 2 /\ Len(n.path) = 3

-----------------------------------------------------------------------------
(* Claim C29: the labels on a root-to-leaf path.                           *)

\* C29: In a finished flow tree, no node that is not flagged as a cycle has,
\* anywhere below it, a node that is not flagged as a cycle and carries the
\* same (class_name, method) label: on a root-to-leaf path the labels of the
\* nodes that are not cycle nodes are all different, also when a requested
\* class name was resolved by the substring match.
NoLabelRepeatsOnAPath ==
    (flow_pc = "done" /\ method_flow # NoNode) =>
        \A n \in AllNodes(method_flow) :
            LET below == UNION { AllNodes(n.calls[i]) : i \in 1..Len(n.calls) }
            IN \A d \in below :
                  (~n.is_cycle /\ ~d.is_cycle) =>
                      ~(d.class_name = n.class_name /\ d.method = n.method)

-----------------------------------------------------------------------------
(* Claim C30: an expanded node and the method it is expanded from.         *)

\* C30: In a finished flow tree, every expanded node names a method that
\* its class declares, its return type is the return type of that method,
\* and its children are, in order, the calls of that method that are not
\* skipped; also when the method was found by the fallback matching.
ExpandedNodeIsSelfConsistent ==
    (flow_pc = "done" /\ method_flow # NoNode) =>
        \A n \in AllNodes(method_flow) :
            n.has_calls =>
                LET ci == GetClass(n.class_name) IN
                /\ ci # 0
                /\ ExactMethod(ci, n.method) # 0
                /\ LET named == parsed_classes[ci].methods[ExactMethod(ci, n.method)]
                       kept == SelectSeq(named.calls,
                                   LAMBDA c : ~SkipCall(c, n.class_name, n.method))
                   IN /\ n.return_type = named.return_type
                      /\ Len(n.calls) = Len(kept)
                      /\ \A i \in 1..Len(kept) :
                            n.calls[i].method = kept[i].method

====
